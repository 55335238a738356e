----------------------------- MODULE MCServing -----------------------------
(***************************************************************************)
(* Instances of Serving for TLC: two replicas, and clients that repeat     *)
(* their requests.                                                         *)
(***************************************************************************)
EXTENDS Serving, TLC

CONSTANTS r1, r2, r3, s1, p1, p2

MCRequests  == {r1, r2}
MCRequests3 == {r1, r2, r3}
MCSeeds     == {s1}
MCSeedMovies == s1 :> [title |-> "a", poster |-> s1]
MCRawTitles == {"a", "c"}
MCTooLong   == {}
MCTrim      == [t \in MCRawTitles |-> t]
MCProcesses == {p1, p2}
MCProcess1  == {p1}

Symmetry == Permutations(MCRequests3)

NewUpload(t) == [op |-> "createWithUpload", id |-> "none", title |-> t,
                 url |-> "absent", file |-> "good"]
NewPoster(f) == [op |-> "uploadPoster", id |-> "none", title |-> "none",
                 url |-> "absent", file |-> f]
Patch(m, t, u, f) == [op |-> "update", id |-> m, title |-> t, url |-> u,
                      file |-> f]
Delete(m)    == [op |-> "remove", id |-> m, title |-> "none",
                 url |-> "absent", file |-> "none"]

\* An upload, an edit of each kind and a removal, each of which may be repeated
MCInputs ==
  {NewUpload("c"), NewPoster("good"), NewPoster("bad")}
  \union {Patch(s1, "none", "absent", "good")}
  \union {Patch(s1, "none", r1, "none")}
  \union {Delete(s1), Delete(r1)}

\* Uploads that are attached to a movie, with or without an answer, and replaced
AttachInputs ==
  {NewPoster("good"), Patch(s1, "none", "absent", "good"), Delete(s1)}
  \union {Patch(s1, "none", k, "none") : k \in MCRequests3}
=============================================================================
