----------------------------- MODULE MCSessions -----------------------------
(***************************************************************************)
(* Instances of Sessions for TLC.                                          *)
(***************************************************************************)
EXTENDS Sessions, TLC

CONSTANTS r1, r2, s1

MCRequests == {r1, r2}
MCSeeds == {s1}
MCSeedUsers == s1 :> [email |-> "a", role |-> "admin"]

\* "B" is "b" with capitals
MCRawEmails == {"a", "b", "B"}
MCLower == [e \in MCRawEmails |-> IF e = "B" THEN "b" ELSE e]

\* One hour and one week. At 3 seconds an access token signed for "3600"
\* milliseconds has expired; at an hour one signed for 3600 seconds has
MCLifetime   == 3600
MCRefreshTtl == 604800
MCInstants   == {0, 3, 3600, 604800}

Symmetry == Permutations(MCRequests)

MCDeployments ==
  {[roles |-> "text", expiresIn |-> "default"], [roles |-> "text", expiresIn |-> "env"],
   [roles |-> "text[]", expiresIn |-> "default"]}

EnvDeployment == {[roles |-> "text", expiresIn |-> "env"]}

Register(e)  == [op |-> "register", email |-> e]
Login(e, p)  == [op |-> "login", email |-> e, password |-> p]
Refresh(k)   == [op |-> "refresh", token |-> k]
Call(k, n)   == [op |-> "call", token |-> k, needs |-> n]

\* Everything a client can ask for: an email that is new, written in two ways,
\* the admin's, and the sessions of the admin and of the other request
MCInputs ==
  {Register(e) : e \in MCRawEmails} \union {Login("a", "wrong")}
  \union {Login(e, "right") : e \in {"a", "B"}}
  \union {Refresh(k) : k \in MCRequests \union MCSeeds}
  \union {Call(k, n) : k \in MCRequests \union MCSeeds, n \in {"admin", "any"}}
=============================================================================
