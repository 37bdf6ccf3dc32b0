------------------------------- MODULE Server -------------------------------
(***************************************************************************)
(* The parts of the server that share nothing but the process: what a       *)
(* request meets first, accounts, messages with other servers, the daily    *)
(* digest, and the assistant.  Nothing one part does is seen by another, so *)
(* one of them is at work in a behaviour, and every interleaving inside     *)
(* that part is there.                                                      *)
(***************************************************************************)
EXTENDS Intake, Accounts, Delivery, Digest, Assistant

VARIABLE busy   \* the part at work

vars == <<busy, intakeVars, accountVars, outVars, inVars, digestVars, assistantVars>>

Parts == {"intake", "access", "profile", "outgoing", "incoming", "digest", "assistant"}

Init ==
    /\ busy \in Parts
    /\ IntakeInit /\ AccountsInit /\ DeliveryInit /\ DigestInit /\ AssistantInit
    \* What a part that is not at work starts from makes no difference.
    /\ busy = "assistant" \/ office = "ADMIN"
    /\ busy \in {"access", "profile"} \/ account = NoAccount
    /\ busy = "incoming" \/ stage = CHOOSE f \in [Tickets -> Stages] : TRUE

Next ==
    /\ UNCHANGED busy
    /\ \/ busy = "intake" /\ IntakeNext
          /\ UNCHANGED <<accountVars, outVars, inVars, digestVars, assistantVars>>
       \/ busy = "access" /\ AccessNext
          /\ UNCHANGED <<intakeVars, outVars, inVars, digestVars, assistantVars>>
       \/ busy = "profile" /\ ProfileNext
          /\ UNCHANGED <<intakeVars, outVars, inVars, digestVars, assistantVars>>
       \/ busy = "outgoing" /\ OutNext
          /\ UNCHANGED <<intakeVars, accountVars, inVars, digestVars, assistantVars>>
       \/ busy = "incoming" /\ InNext
          /\ UNCHANGED <<intakeVars, accountVars, outVars, digestVars, assistantVars>>
       \/ busy = "digest" /\ DigestNext
          /\ UNCHANGED <<intakeVars, accountVars, outVars, inVars, assistantVars>>
       \/ busy = "assistant" /\ AssistantNext
          /\ UNCHANGED <<intakeVars, accountVars, outVars, inVars, digestVars>>

Spec == Init /\ [][Next]_vars

----------------------------------------------------------------------------
(* Types of the parts, and with them their limits: calls let through in a   *)
(* window, active tokens, languages, tries, calls of the AI.                *)
TypeOK ==
    /\ busy \in Parts
    /\ IntakeTypeOK /\ AccountsTypeOK /\ DeliveryTypeOK /\ DigestTypeOK /\ AssistantTypeOK
=============================================================================
