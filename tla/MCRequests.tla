----------------------------- MODULE MCRequests -----------------------------
(***************************************************************************)
(* What single requests of the API do, on small instances: a letter and    *)
(* its repetition (SendTransport), the session behind a request            *)
(* (SessionGuard) and two PATCHes of one mailbox (MailboxPatch).  The      *)
(* three share no state and no action, so one graph holds the states of    *)
(* each: part says whose steps are taken, and the others keep one of their *)
(* initial states.                                                         *)
(***************************************************************************)
EXTENDS Naturals, TLC

CONSTANTS Request, None,
          Folders, Phase,
          Change, Lost, Cancels,
          Where, Password, MaxPatches

VARIABLES
  part,
  kind, dead, consent, at, phase, leg, reply, thread, folder, copies, delivered, answer,
  session, pending, committed, batch, pushed, reported, fate, savepoint, lost, cancels,
  row, request, patches, probed, overtaken

sendVars == <<kind, dead, consent, at, phase, leg, reply, thread, folder, copies, delivered, answer>>
sessionVars == <<session, pending, committed, batch, pushed, reported, fate, savepoint, lost, cancels>>
patchVars == <<row, request, patches, probed, overtaken>>

Send == INSTANCE SendTransport
Session == INSTANCE SessionGuard WITH Write <- Change
Patch == INSTANCE MailboxPatch

ASSUME RequestsAssumption ==
  Send!SendAssumption /\ Session!GuardAssumption /\ Patch!PatchAssumption

Init ==
  /\ part \in {"send", "session", "patch"}
  /\ Send!Init /\ Session!Init /\ Patch!Init
  /\ part # "send" => kind = "password"
  /\ part # "patch" => row.smtp = None

SendNext == part = "send" /\ Send!Next /\ UNCHANGED <<part, sessionVars, patchVars>>

SessionNext == part = "session" /\ Session!Next /\ UNCHANGED <<part, sendVars, patchVars>>

PatchNext == part = "patch" /\ Patch!Next /\ UNCHANGED <<part, sendVars, sessionVars>>

Next == SendNext \/ SessionNext \/ PatchNext

vars == <<part, sendVars, sessionVars, patchVars>>

Spec == Init /\ [][Next]_vars

Interchangeable ==
  UNION {Permutations(S) : S \in {Request, Change, Where, Password}}
-----------------------------------------------------------------------------
(* The properties, as the modules state them                               *)

\* 404, 409 and 422 mean that the letter was not sent and will not be.
ClearFailuresSendNothing == Send!ClearFailuresSendNothing

\* One send leaves one copy in Sent at most.
OneSentCopy == Send!OneSentCopy

\* What is committed is pushed or named at teardown.
LossIsNoisy == Session!LossIsNoisy

\* What a rollback of its transaction undid is not pushed.
UndoneIsNotPushed == Session!UndoneIsNotPushed

\* No password is stored that no probe has accepted.
PasswordsWereProbed == Patch!PasswordsWereProbed

\* A PATCH nobody overtook leaves the login it has probed.
UnrivalledPatchIsProbed == Patch!UnrivalledPatchIsProbed
=============================================================================
