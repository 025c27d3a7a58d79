-------------------------- MODULE ActivityLifecycle --------------------------
(***************************************************************************)
(* What the workflow promises of one activity, with no requests, rows or   *)
(* transactions: the activity is created in the design phase, advances     *)
(* along the transition matrix, and may be closed by an administrator.     *)
(* `trail` is the list of statuses it went through, the promise made by    *)
(* the status log.                                                         *)
(*                                                                         *)
(* Status names (the code's strings):                                      *)
(*   design 待设计方案        security 待安保方案设计  filing 待备案申请          *)
(*   handed 备案材料已交接    supplement 待补充备案材料                          *)
(*   approved 审批通过-待举办  ongoing 举办中           ended 已结束             *)
(*   refused 不通过/已终止    cancelled 已取消         postponed 已延期          *)
(***************************************************************************)
EXTENDS Sequences, Naturals

VARIABLES phase, trail

avars == <<phase, trail>>

\* TRANSITION_MATRIX
Matrix ==
  { <<"design", "security">>, <<"security", "security">>,
    <<"security", "filing">>, <<"filing", "handed">>,
    <<"handed", "approved">>, <<"handed", "supplement">>,
    <<"handed", "refused">>, <<"supplement", "handed">>,
    <<"approved", "ongoing">>, <<"ongoing", "ended">> }

\* The targets of force_cancel and force_postpone.
Forced == {"cancelled", "postponed"}

\* TERMINAL_STATUSES
Terminal == {"ended", "refused"} \cup Forced

Statuses ==
  {"design", "security", "filing", "handed", "supplement",
   "approved", "ongoing"} \cup Terminal

Enter(s) ==
  /\ phase' = s
  /\ trail' = Append(trail, s)

Create ==
  /\ phase = "none"
  /\ Enter("design")

Advance ==
  \E s \in Statuses :
    /\ <<phase, s>> \in Matrix
    /\ Enter(s)

\* An order to close the activity may arrive late and replace one terminal
\* status by another, but never brings an activity back.
Close ==
  /\ phase # "none"
  /\ \E s \in Forced : Enter(s)

AInit ==
  /\ phase = "none"
  /\ trail = <<>>

ANext == Create \/ Advance \/ Close

ASpec == AInit /\ [][ANext]_avars
=============================================================================
