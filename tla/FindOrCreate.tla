---------------------------- MODULE FindOrCreate ----------------------------
(***************************************************************************)
(* What restores promise of a user's playlists, and no more.  A playlist   *)
(* is made for one category, may then become the playlist the category is  *)
(* mapped to, in place of the one before, and is left for good once it no  *)
(* longer is: no category ever comes back to it.  What is claimed to be in *)
(* a playlist was put there.  Restore implements this.                     *)
(***************************************************************************)
CONSTANTS
  Categories,  \* what playlists are made for
  Playlists,   \* ids a playlist may get
  Videos,      \* what is put in them
  None         \* no category

VARIABLES
  stage,   \* stage[p]: "none", "new", "mapped" or "left"
  home,    \* home[p]: the category p was made for
  had,     \* had[p]: what was ever put in p
  mirror   \* mirror[p]: what p is claimed to have

vars == <<stage, home, had, mirror>>

Init ==
  /\ stage = [p \in Playlists |-> "none"]
  /\ home = [p \in Playlists |-> None]
  /\ had = [p \in Playlists |-> {}]
  /\ mirror = [p \in Playlists |-> {}]

\* A playlist is made, to be mapped or to be left alone.
Make(p, c) ==
  /\ stage[p] = "none"
  /\ \E s \in {"new", "left"} : stage' = [stage EXCEPT ![p] = s]
  /\ home' = [home EXCEPT ![p] = c]
  /\ UNCHANGED <<had, mirror>>

\* Mapped for the same category.
Rival(q, p) == q # p /\ stage[q] = "mapped" /\ home[q] = home[p]

Map(p) ==
  /\ stage[p] = "new"
  /\ stage' = [q \in Playlists |-> IF q = p THEN "mapped"
                                   ELSE IF Rival(q, p) THEN "left" ELSE stage[q]]
  /\ UNCHANGED <<home, had, mirror>>

Leave(S) ==
  /\ \A p \in S : stage[p] \in {"new", "mapped"}
  /\ stage' = [q \in Playlists |-> IF q \in S THEN "left" ELSE stage[q]]
  /\ UNCHANGED <<home, had, mirror>>

Add(p, V) ==
  /\ stage[p] # "none"
  /\ had' = [had EXCEPT ![p] = @ \cup V]
  /\ UNCHANGED <<stage, home, mirror>>

Claim(p, V) ==
  /\ V \subseteq had[p]
  /\ mirror' = [mirror EXCEPT ![p] = @ \cup V]
  /\ UNCHANGED <<stage, home, had>>

Next ==
  \/ \E p \in Playlists :
       \/ \E c \in Categories : Make(p, c)
       \/ Map(p)
       \/ \E V \in SUBSET Videos : Add(p, V) \/ Claim(p, V)
  \/ \E S \in SUBSET Playlists : Leave(S)

Spec == Init /\ [][Next]_vars

-----------------------------------------------------------------------------
(* What follows from it.                                                     *)

\* A playlist once left is never found again.
StaysLeft   == \A p \in Playlists : stage[p] = "left" => stage'[p] = "left"
LeftForGood == [][StaysLeft]_vars

=============================================================================
