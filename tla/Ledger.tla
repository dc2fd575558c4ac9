-------------------------------- MODULE Ledger --------------------------------
(***************************************************************************)
(* What recording results promises, without transactions, locks or a       *)
(* clock: every report is posted in one step, with the build it names and  *)
(* the metadata it supplies, or has no effect; a failing report's          *)
(* auto-blocks are posted in one later step, or not at all.                *)
(* Recording implements this module; the mapping is there.                 *)
(***************************************************************************)
EXTENDS Naturals

CONSTANTS
  Builds, Fields, Recorders, Requests, None,
  Spreads,       \* the reports that block other cases
  Scope          \* Scope[q]: the cases report q is to block

VARIABLES
  rows,          \* the results everyone can see
  present, meta, \* the builds, and their metadata
  req,           \* the report each recorder has to get recorded
  standing       \* how far it got

shown == <<rows, present, meta>>
vars == <<rows, present, meta, req, standing>>

Moves(r, from, to) ==
  /\ standing[r] \in from
  /\ standing' = [standing EXCEPT ![r] = to]
  /\ UNCHANGED req

\* One new result, the one reported.
PostResult(r) ==
  \E x \in rows' \ rows :
    /\ rows' = rows \cup {x}
    /\ x.build = req[r].build /\ x.case = req[r].case /\ x.status = req[r].status
    /\ x.by = r /\ x.origin = "reported"

\* Only the report's build changes, only to what the report supplies, and none of what it
\* supplies for an empty field is dropped.
PostBuild(r) ==
  LET b == req[r].build
  IN  /\ present' = present \cup ({b} \ {None})
      /\ \A d \in Builds, f \in Fields :
           /\ meta'[d][f] # meta[d][f] => d = b /\ meta'[d][f] = req[r].meta[f]
           /\ d = b /\ meta[d][f] = None => meta'[d][f] = req[r].meta[f]

Post(r) ==
  /\ Moves(r, {"pending"}, IF req[r] \in Spreads THEN "spreading" ELSE "settled")
  /\ IF req[r].kind = "record" THEN PostResult(r) ELSE UNCHANGED rows
  /\ PostBuild(r)

\* The auto-blocks appear together: one for each case in scope that had no result when the
\* cascade began, after which no case in scope is without one.
Spread(r) ==
  /\ Moves(r, {"spreading"}, "settled")
  /\ rows \subseteq rows'
  /\ \A x \in rows' \ rows :
       /\ x.build = req[r].build /\ x.case \in Scope[req[r]]
       /\ x.status = "blocked" /\ x.by = r /\ x.origin = "cascade"
       /\ \A y \in rows : y.build = x.build /\ y.case = x.case => y.end > x.created
       /\ \A y \in rows' \ rows : y.case = x.case => y = x
  /\ \A c \in Scope[req[r]] : \E y \in rows' : y.build = req[r].build /\ y.case = c
  /\ UNCHANGED <<present, meta>>

GiveUpSpreading(r) == Moves(r, {"spreading"}, "settled") /\ UNCHANGED shown

Refuse(r) == Moves(r, {"pending"}, "refused") /\ UNCHANGED shown

Answer(r) == Moves(r, {"settled"}, "answered") /\ UNCHANGED shown

\* An error leaves what is posted posted, and what is not, not.
Fail(r) == Moves(r, {"pending", "spreading", "settled"}, "error") /\ UNCHANGED shown

Resend(r) == Moves(r, {"error"}, "pending") /\ UNCHANGED shown

Init ==
  /\ rows = {}
  /\ present \in SUBSET Builds
  /\ meta = [b \in Builds |-> [f \in Fields |-> None]]
  /\ req \in [Recorders -> Requests]
  /\ standing = [r \in Recorders |-> "pending"]

Next ==
  \E r \in Recorders :
    \/ Post(r) \/ Spread(r) \/ GiveUpSpreading(r)
    \/ Refuse(r) \/ Answer(r) \/ Fail(r) \/ Resend(r)

Spec == Init /\ [][Next]_vars

=============================================================================
