------------------------------ MODULE MCMovies ------------------------------
(***************************************************************************)
(* Instances of Movies for TLC: the seed rows, the titles, and the inputs  *)
(* of each run.                                                            *)
(***************************************************************************)
EXTENDS Movies, TLC

CONSTANTS r1, r2, r3, s1, s2

MCRequests3 == {r1, r2, r3}
MCRequests2 == {r1, r2}

\* s1 has a file in the bucket, s2 a poster elsewhere
MCSeeds == {s1, s2}
MCSeedMovies ==
  s1 :> [title |-> "a", poster |-> s1] @@ s2 :> [title |-> "b", poster |-> "external"]

MCSeed1 == {s1}
MCSeedMovie1 == s1 :> [title |-> "a", poster |-> s1]

\* " c" is "c" with white space in front, "d..." has more than 255 characters
MCRawTitles == {"a", "b", "c", " c", "d..."}
MCTooLong == {"d..."}
MCTrim == [t \in MCRawTitles |-> IF t = " c" THEN "c" ELSE t]

Symmetry == Permutations(MCRequests3)

NewMovie(t, u)   == [op |-> "create", id |-> "none", title |-> t, url |-> u,
                     file |-> "none"]
NewUpload(t, f)  == [op |-> "createWithUpload", id |-> "none", title |-> t,
                     url |-> "absent", file |-> f]
NewPoster(f)     == [op |-> "uploadPoster", id |-> "none", title |-> "none",
                     url |-> "absent", file |-> f]
Patch(m, t, u, f) == [op |-> "update", id |-> m, title |-> t, url |-> u,
                      file |-> f]
Delete(m)        == [op |-> "remove", id |-> m, title |-> "none",
                     url |-> "absent", file |-> "none"]

\* Every endpoint, about a seeded movie or about one a request creates: titles
\* that are taken, free and padded, a file and every kind of posterUrl
ConcurrentInputs ==
  {NewMovie("c", "external"), NewMovie("c", "long"), NewUpload(" c", "good"),
   NewUpload("b", "bad"), NewPoster("good")}
  \union {NewMovie("b", k) : k \in MCRequests3}
  \union {Patch(m, "c", "absent", "none") : m \in MCRequests3 \union MCSeeds}
  \union {Patch(m, "none", "absent", "good") : m \in MCRequests3 \union {s1}}
  \union {Patch(s1, "none", u, "none") : u \in MCRequests3 \union {s1, "external"}}
  \union {Patch(s2, "none", k, "none") : k \in MCRequests3}
  \union {Patch(s1, "b", "null", "none"), Patch(s1, "none", "", "none"),
          Patch(s1, "d...", "absent", "good")}
  \union {Delete(m) : m \in MCRequests3 \union {s1}}

\* One request at a time: every combination of what a PATCH can name
SequentialInputs ==
  {NewMovie("c", "external"), NewUpload(" c", "good"), NewPoster("good"),
   NewPoster("none")}
  \union {NewMovie("b", k) : k \in MCRequests3}
  \union {Patch(m, t, u, f) : m \in MCRequests3 \union {s1}, t \in {"none", " c"},
            u \in MCRequests3 \union {"absent", "external", "null"},
            f \in {"none", "good"}}
  \union {Patch(s1, "none", s1, f) : f \in {"none", "good"}}
  \union {Patch(s1, "d...", u, "none") : u \in {"external", "long"}}
  \union {Delete(m) : m \in MCRequests3 \union {s1}}

\* Two requests, for liveness
PairInputs ==
  {NewMovie("c", "external"), NewUpload("c", "good"), NewPoster("good"),
   Delete(s1), Delete(s2), Patch(s2, "none", r1, "none")}
  \union {Patch(s1, t, u, f) : t \in {"none", "c"}, u \in {"absent", "external"},
            f \in {"none", "good"}}

\* Overlapping edits of one movie, each of them legal on its own
EditInputs ==
  {Patch(s1, "c", "absent", "none"), Patch(s1, "none", "absent", "good"),
   Patch(s1, "none", "external", "none"), Delete(s1)}

\* Two edits of one movie that both keep it
KeepingInputs == EditInputs \ {Delete(s1)}

\* New titles and renamings
TitleInputs ==
  {NewMovie(t, "external") : t \in {"c", " c"}}
  \union {Patch(s1, t, "absent", "none") : t \in {"c", " c"}}
  \union {Delete(s1), NewMovie("a", "external")}

=============================================================================
