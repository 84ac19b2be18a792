------------------------------- MODULE Divider ------------------------------
(***************************************************************************)
(* divu.v: 65 cycles of restoring division behind the execution stage; it  *)
(* keeps the operands of the last division, and answers at once when they  *)
(* are asked for again.                                                    *)
(***************************************************************************)
EXTENDS Machine

VARIABLES
    d_state,    \* state
    d_key,      \* <<dividend_reg, divisor_reg>>
    d_work,     \* what div_shfit_rem and sub_num were loaded with
    d_res       \* quotient_reg, remainder_reg

dividerVars == <<d_state, d_key, d_work, d_res>>

Reset0 == <<0, 1>>

DividerTypeOK ==
    /\ d_state \in {"IDLE", "LOAD", "DIV", "OUT"}
    /\ d_key \in Value \X Value /\ d_work \in Value \X Value
    /\ d_res \in Value

DividerInit ==
    /\ d_state = "IDLE" /\ d_key = Reset0 /\ d_work = Reset0
    /\ d_res = Quotient(0, 1)

DivOValid == d_state = "OUT"

\* valid: a division with the operands ops stands in EX; ready: EX hands over;
\* last: cnt has come to 64.
DividerStep(flush, valid, ops, ready, last) ==
    /\ d_key' = IF flush THEN Reset0 ELSE IF valid THEN ops ELSE d_key
    /\ \/ /\ d_state = "LOAD"
          /\ d_state' = "DIV" /\ d_work' = d_key /\ UNCHANGED d_res
       \/ /\ d_state # "LOAD" /\ flush
          /\ d_state' = "IDLE" /\ d_res' = Quotient(0, 1) /\ UNCHANGED d_work
       \/ /\ d_state = "IDLE" /\ ~flush
          /\ d_state' = IF ~valid THEN "IDLE"
                        ELSE IF ops[2] = 0 \/ ops = d_key THEN "OUT"
                        ELSE "LOAD"
          /\ d_res' = IF valid /\ ops[2] = 0 THEN Quotient(ops[1], 0) ELSE d_res
          /\ UNCHANGED d_work
       \/ /\ d_state = "DIV" /\ ~flush
          /\ d_state' = IF last THEN "OUT" ELSE "DIV"
          /\ d_res' = IF last THEN Quotient(d_work[1], d_work[2]) ELSE d_res
          /\ UNCHANGED d_work
       \/ /\ d_state = "OUT" /\ ~flush
          /\ d_state' = IF ready THEN "IDLE" ELSE "OUT"
          /\ UNCHANGED <<d_work, d_res>>
=============================================================================
