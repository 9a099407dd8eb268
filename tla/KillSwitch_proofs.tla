--------------------------- MODULE KillSwitch_proofs ---------------------------
(***************************************************************************)
(* A confirmed halt holds, and the three copies of the switch agree when   *)
(* nobody is in the middle of a call, for any number of requests and of    *)
(* faults.                                                                 *)
(***************************************************************************)
EXTENDS KillSwitch, TLAPS

CallState == [step : Step, on : BOOLEAN, alone : BOOLEAN, sure : BOOLEAN]

(* A call that nobody has disturbed has set what it has come past. *)
AloneOK(c) ==
  call[c].alone =>
    /\ Busy = {c}
    /\ c # Starter => active = call[c].on
    /\ call[c].step \in {"mirror", "rest"} => halted = call[c].on
    /\ call[c].step = "rest" => mirror = call[c].on

(* An activation met by no deactivation has set the row once it is past it. *)
SureOK(c) ==
  (call[c].sure /\ call[c].on) =>
    /\ \A d \in Busy \ {Starter} : call[d].on
    /\ call[c].step \in {"mirror", "rest"} => halted

SwitchInv ==
  /\ SwitchTypeOK
  /\ CopiesAgree
  /\ ConfirmedHaltHolds
  /\ call[Starter].step \in {"none", "mirror"}
  /\ confirmed => \A c \in Busy \ {Starter} : call[c].on
  /\ \A c \in Busy : AloneOK(c)
  /\ \A c \in Busy \ {Starter} : SureOK(c)

-----------------------------------------------------------------------------
(***************************************************************************)
(* What happens to the calls.                                              *)
(***************************************************************************)
LEMMA Callers ==
  /\ Api \subseteq Caller /\ Listener \in Caller /\ Starter \in Caller
  /\ Listener # Starter /\ Starter \notin Api
  /\ NoCall \in CallState
  BY ApiAssumption DEF Caller, Listener, Starter, NoCall, CallState, Step

LEMMA EntersEffect ==
  ASSUME call \in [Caller -> CallState], NEW c \in Caller,
         NEW step \in {"row", "mirror"}, NEW on \in BOOLEAN,
         call[c].step = "none", Enters(c, step, on)
  PROVE  /\ call' \in [Caller -> CallState]
         /\ Busy' = Busy \cup {c}
         /\ call'[c].step = step /\ call'[c].on = on
         /\ call'[c].alone <=> Busy = {}
         /\ call'[c].sure <=> \A b \in Busy \ {Starter} : call[b].on
         /\ \A d \in Caller \ {c} :
              /\ call'[d].step = call[d].step /\ call'[d].on = call[d].on
              /\ ~call'[d].alone
              /\ call'[d].sure <=> call[d].sure /\ (on \/ c = Starter)
<1>1. call'[c] = [step |-> step, on |-> on, alone |-> Busy = {},
                  sure |-> \A b \in Busy \ {Starter} : call[b].on]
  BY DEF Enters
<1>2. \A d \in Caller \ {c} :
        call'[d] = [call[d] EXCEPT !.alone = FALSE,
                                   !.sure = @ /\ (on \/ c = Starter)]
  BY DEF Enters
<1>3. (Busy = {}) \in BOOLEAN
      /\ (\A b \in Busy \ {Starter} : call[b].on) \in BOOLEAN
  OBVIOUS
<1>4. call'[c] \in CallState
  BY <1>1, <1>3 DEF CallState, Step
<1>5. \A d \in Caller \ {c} : call'[d] \in CallState
  BY <1>2 DEF CallState
<1>6. call' \in [Caller -> CallState]
  BY <1>4, <1>5 DEF Enters
<1>7. /\ call'[c].step = step /\ call'[c].on = on
      /\ call'[c].alone = (Busy = {})
      /\ call'[c].sure = \A b \in Busy \ {Starter} : call[b].on
  BY <1>1
<1>8. ASSUME NEW d \in Caller \ {c}
      PROVE  /\ call'[d].step = call[d].step /\ call'[d].on = call[d].on
             /\ call'[d].alone = FALSE
             /\ call'[d].sure = (call[d].sure /\ (on \/ c = Starter))
  <2>1. call[d] \in CallState
    OBVIOUS
  <2> QED BY <1>2, <2>1 DEF CallState
<1>9. Busy' = Busy \cup {c}
  BY <1>7, <1>8 DEF Busy
<1> QED BY <1>6, <1>7, <1>8, <1>9

LEMMA GoesEffect ==
  ASSUME call \in [Caller -> CallState], NEW c \in Caller,
         NEW step \in {"mirror", "rest"}, call[c].step # "none", Goes(c, step)
  PROVE  /\ call' \in [Caller -> CallState]
         /\ Busy' = Busy
         /\ call'[c] = [call[c] EXCEPT !.step = step]
         /\ \A d \in Caller \ {c} : call'[d] = call[d]
  BY DEF Goes, Busy, CallState, Step

LEMMA LeavesEffect ==
  ASSUME call \in [Caller -> CallState], NEW c \in Caller, Leaves(c)
  PROVE  /\ call' \in [Caller -> CallState]
         /\ Busy' = Busy \ {c}
         /\ call'[c].step = "none"
         /\ \A d \in Caller \ {c} : call'[d] = call[d]
  BY Callers DEF Leaves, Busy, NoCall

-----------------------------------------------------------------------------
(***************************************************************************)
(* Each action.                                                            *)
(***************************************************************************)
LEMMA BeginOK ==
  ASSUME SwitchInv, NEW c \in Caller \ {Starter}, NEW on \in BOOLEAN,
         Begin(c, on), alert' \in BOOLEAN, UNCHANGED <<subscribed, retries>>
  PROVE  SwitchInv'
<1>1. /\ call \in [Caller -> CallState] /\ call[c].step = "none"
      /\ Enters(c, "row", on)
      /\ UNCHANGED <<agent, halted, mirror, loss, faults, torn>>
      /\ active' = on /\ confirmed' = (confirmed /\ on)
  BY DEF Begin, SwitchInv, SwitchTypeOK, CallState
<1>2. /\ call' \in [Caller -> CallState]
      /\ Busy' = Busy \cup {c}
      /\ call'[c].step = "row" /\ call'[c].on = on
      /\ call'[c].alone <=> Busy = {}
      /\ call'[c].sure <=> \A b \in Busy \ {Starter} : call[b].on
      /\ \A d \in Caller \ {c} :
           /\ call'[d].step = call[d].step /\ call'[d].on = call[d].on
           /\ ~call'[d].alone
           /\ call'[d].sure <=> call[d].sure /\ on
  BY <1>1, EntersEffect
<1>3. SwitchTypeOK'
  BY <1>1, <1>2, Callers DEF SwitchInv, SwitchTypeOK, CallState
<1>4. CopiesAgree' /\ ConfirmedHaltHolds'
  BY <1>1, <1>2 DEF SwitchInv, CopiesAgree, ConfirmedHaltHolds
<1>5. \A d \in Busy' : AloneOK(d)'
  BY <1>1, <1>2 DEF AloneOK, Busy
<1>6. \A d \in Busy' \ {Starter} : SureOK(d)'
  BY <1>1, <1>2 DEF SwitchInv, SureOK, Busy
<1>7. /\ call'[Starter].step \in {"none", "mirror"}
      /\ confirmed' => \A d \in Busy' \ {Starter} : call'[d].on
  BY <1>1, <1>2, Callers DEF SwitchInv, Busy
<1> QED BY <1>3, <1>4, <1>5, <1>6, <1>7 DEF SwitchInv

LEMMA WriteOK ==
  ASSUME SwitchInv, NEW c \in Caller, WriteRow(c) \/ WriteMirror(c)
  PROVE  SwitchInv'
<1>1. /\ call \in [Caller -> CallState] /\ c # Starter /\ c \in Busy
      /\ UNCHANGED <<agent, active, loss, inbox, faults, history>>
      /\ \/ /\ call[c].step = "row" /\ halted' = call[c].on
            /\ Goes(c, "mirror") /\ mirror' = mirror
         \/ /\ call[c].step = "mirror" /\ mirror' = call[c].on
            /\ Goes(c, "rest") /\ halted' = halted
  BY DEF WriteRow, WriteMirror, SwitchInv, SwitchTypeOK, CallState, Busy
<1>2. PICK step \in {"mirror", "rest"} :
        /\ call' \in [Caller -> CallState]
        /\ Busy' = Busy
        /\ call'[c] = [call[c] EXCEPT !.step = step]
        /\ \A d \in Caller \ {c} : call'[d] = call[d]
        /\ \/ /\ call[c].step = "row" /\ step = "mirror"
              /\ halted' = call[c].on /\ mirror' = mirror
           \/ /\ call[c].step = "mirror" /\ step = "rest"
              /\ mirror' = call[c].on /\ halted' = halted
  BY <1>1, GoesEffect DEF Busy
<1>3. /\ call'[c].step = step /\ call'[c].on = call[c].on
      /\ call'[c].alone = call[c].alone /\ call'[c].sure = call[c].sure
  BY <1>1, <1>2 DEF CallState
<1>4. SwitchTypeOK'
  BY <1>1, <1>2, Callers DEF SwitchInv, SwitchTypeOK, CallState, history, inbox
<1>5. CopiesAgree'
  BY <1>1, <1>2 DEF CopiesAgree
<1>6. confirmed' => halted'
  <2> SUFFICES ASSUME confirmed' PROVE halted'
    OBVIOUS
  <2>1. confirmed
    BY <1>1 DEF history
  <2>2. halted /\ call[c].on
    BY <1>1, <2>1 DEF SwitchInv, ConfirmedHaltHolds
  <2> QED BY <1>2, <2>2
<1>7. \A d \in Busy : AloneOK(d)'
  <2> TAKE d \in Busy
  <2>1. CASE d = c
    BY <1>1, <1>2, <1>3, <2>1 DEF SwitchInv, AloneOK
  <2>2. CASE d # c
    BY <1>1, <1>2, <2>2 DEF SwitchInv, AloneOK, Busy
  <2> QED BY <2>1, <2>2
<1>8. \A d \in Busy \ {Starter} : SureOK(d)'
  <2> TAKE d \in Busy \ {Starter}
  <2>1. \A b \in Busy : call'[b].on = call[b].on
    BY <1>2, <1>3 DEF Busy
  <2>2. CASE d = c
    <3> SUFFICES ASSUME call'[c].sure, call'[c].on
                 PROVE  /\ \A b \in Busy' \ {Starter} : call'[b].on
                        /\ call'[c].step \in {"mirror", "rest"} => halted'
      BY <2>2 DEF SureOK
    <3>1. call[c].sure /\ call[c].on
      BY <1>3
    <3>2. SureOK(c)
      BY <1>1 DEF SwitchInv
    <3>3. /\ \A b \in Busy \ {Starter} : call[b].on
          /\ call[c].step \in {"mirror", "rest"} => halted
      BY <3>1, <3>2 DEF SureOK
    <3>4. \A b \in Busy' \ {Starter} : call'[b].on
      BY <1>2, <2>1, <3>3
    <3> QED BY <1>2, <3>1, <3>3, <3>4
  <2>3. CASE d # c
    <3>1. call'[d] = call[d]
      BY <1>2, <2>3 DEF Busy
    <3>2. (call[d].sure /\ call[d].on) => call[c].on
      BY <1>1 DEF SwitchInv, SureOK
    <3> QED BY <1>1, <1>2, <2>1, <3>1, <3>2 DEF SwitchInv, SureOK
  <2> QED BY <2>2, <2>3
<1>9. /\ call'[Starter].step \in {"none", "mirror"}
      /\ confirmed' => \A d \in Busy' \ {Starter} : call'[d].on
  BY <1>1, <1>2, <1>3, Callers DEF SwitchInv, Busy, history
<1> QED
  BY <1>2, <1>4, <1>5, <1>6, <1>7, <1>8, <1>9
  DEF SwitchInv, ConfirmedHaltHolds

(* What remains of the invariant when c, who may be the starter, leaves. *)
LEMMA LeaveOK ==
  ASSUME SwitchInv, NEW c \in Caller, Leaves(c), UNCHANGED <<active, halted>>,
         mirror' = mirror \/ \A d \in Busy \ {c} : ~call[d].alone
  PROVE  /\ call' \in [Caller -> CallState]
         /\ call'[c].step = "none"
         /\ \A d \in Caller \ {c} : call'[d] = call[d]
         /\ call'[Starter].step \in {"none", "mirror"}
         /\ Busy' = Busy \ {c}
         /\ \A d \in Busy' : AloneOK(d)'
         /\ \A d \in Busy' \ {Starter} : SureOK(d)'
<1>1. /\ call' \in [Caller -> CallState]
      /\ Busy' = Busy \ {c}
      /\ call'[c].step = "none"
      /\ \A d \in Caller \ {c} : call'[d] = call[d]
  BY LeavesEffect DEF SwitchInv, SwitchTypeOK, CallState
<1>2. \A d \in Busy' : d \in Busy /\ call'[d] = call[d] /\ d # c
  BY <1>1 DEF Busy
<1>3. \A d \in Busy' : AloneOK(d)'
  <2> TAKE d \in Busy'
  <2>1. CASE c \notin Busy
    BY <1>1, <1>2, <2>1 DEF SwitchInv, AloneOK
  <2>2. CASE c \in Busy
    BY <1>2, <2>2 DEF SwitchInv, AloneOK
  <2> QED BY <2>1, <2>2
<1>4. \A d \in Busy' \ {Starter} : SureOK(d)'
  BY <1>1, <1>2 DEF SwitchInv, SureOK
<1> QED BY <1>1, <1>3, <1>4, Callers DEF SwitchInv

LEMMA AnswerOK ==
  ASSUME SwitchInv, NEW c \in Caller, Answer(c)
  PROVE  SwitchInv'
<1>1. /\ Leaves(c) /\ UNCHANGED <<agent, stores, loss, inbox, faults>>
      /\ c # Starter /\ c \in Busy /\ call[c].step = "rest"
  BY DEF Answer, SwitchInv, Busy
<1>2. /\ call' \in [Caller -> CallState]
      /\ \A d \in Caller \ {c} : call'[d] = call[d]
      /\ call'[Starter].step \in {"none", "mirror"}
      /\ Busy' = Busy \ {c}
      /\ \A d \in Busy' : AloneOK(d)'
      /\ \A d \in Busy' \ {Starter} : SureOK(d)'
  BY <1>1, LeaveOK DEF stores
<1>3. call[c] \in CallState
  BY DEF SwitchInv, SwitchTypeOK, CallState
<1>4. SwitchTypeOK'
  <2>1. torn' \in BOOLEAN /\ confirmed' \in BOOLEAN
    BY DEF Answer
  <2> QED
    BY <1>1, <1>2, <2>1, Callers DEF SwitchInv, SwitchTypeOK, CallState, stores, inbox
<1>5. CopiesAgree'
  <2> SUFFICES ASSUME torn' = FALSE PROVE CopiesAgree'
    BY <1>4 DEF SwitchTypeOK, CopiesAgree
  <2>1. call[c].alone
    BY DEF Answer
  <2> QED BY <1>1, <2>1 DEF SwitchInv, AloneOK, CopiesAgree, stores
<1>6. ASSUME confirmed'
      PROVE  halted' /\ \A d \in Busy' \ {Starter} : call'[d].on
  <2>1. call[c].on /\ (confirmed \/ call[c].sure)
    BY <1>6 DEF Answer
  <2>2. halted /\ \A d \in Busy \ {Starter} : call[d].on
    <3>1. CASE confirmed
      BY <3>1 DEF SwitchInv, ConfirmedHaltHolds
    <3>2. CASE call[c].sure
      <4>1. SureOK(c)
        BY <1>1 DEF SwitchInv
      <4> QED BY <1>1, <2>1, <3>2, <4>1 DEF SureOK
    <3> QED BY <2>1, <3>1, <3>2
  <2> QED BY <1>1, <1>2, <2>2 DEF stores, Busy
<1> QED BY <1>2, <1>4, <1>5, <1>6 DEF SwitchInv, ConfirmedHaltHolds

LEMMA CallRaisesOK ==
  ASSUME SwitchInv, NEW c \in Caller, CallRaises(c)
  PROVE  SwitchInv'
<1>1. /\ Leaves(c) /\ UNCHANGED <<agent, stores, loss, inbox, confirmed>>
      /\ c # Starter /\ torn' = TRUE
  BY DEF CallRaises
<1>2. /\ call' \in [Caller -> CallState]
      /\ \A d \in Caller \ {c} : call'[d] = call[d]
      /\ call'[Starter].step \in {"none", "mirror"}
      /\ Busy' = Busy \ {c}
      /\ \A d \in Busy' : AloneOK(d)'
      /\ \A d \in Busy' \ {Starter} : SureOK(d)'
  BY <1>1, LeaveOK DEF stores
<1>3. faults' \in 0 .. MaxFaults
  BY ApiAssumption DEF CallRaises, Fault, SwitchInv, SwitchTypeOK
<1>4. SwitchTypeOK'
  BY <1>1, <1>2, <1>3, Callers DEF SwitchInv, SwitchTypeOK, CallState, stores, inbox
<1>5. CopiesAgree' /\ ConfirmedHaltHolds'
  BY <1>1 DEF SwitchInv, CopiesAgree, ConfirmedHaltHolds, stores
<1>6. confirmed' => \A d \in Busy' \ {Starter} : call'[d].on
  BY <1>1, <1>2 DEF SwitchInv, Busy
<1> QED BY <1>2, <1>4, <1>5, <1>6 DEF SwitchInv

LEMMA StartReadsOK ==
  ASSUME SwitchInv, StartReads
  PROVE  SwitchInv'
<1>1. /\ call \in [Caller -> CallState] /\ call[Starter].step = "none"
      /\ agent' = "starting" /\ active' = (active \/ halted)
      /\ Enters(Starter, "mirror", halted) /\ halted \in BOOLEAN
      /\ UNCHANGED <<halted, mirror, loss, inbox, faults, history>>
  BY DEF StartReads, SwitchInv, SwitchTypeOK, CallState
<1>2. /\ call' \in [Caller -> CallState]
      /\ Busy' = Busy \cup {Starter}
      /\ call'[Starter].step = "mirror" /\ call'[Starter].on = halted
      /\ call'[Starter].alone <=> Busy = {}
      /\ \A d \in Caller \ {Starter} :
           /\ call'[d].step = call[d].step /\ call'[d].on = call[d].on
           /\ ~call'[d].alone
           /\ call'[d].sure <=> call[d].sure
  BY <1>1, EntersEffect, Callers
<1>3. SwitchTypeOK'
  <2>1. active' \in BOOLEAN
    BY <1>1
  <2> QED
    BY <1>1, <1>2, <2>1, Callers DEF SwitchInv, SwitchTypeOK, CallState, history, inbox
<1>4. CopiesAgree'
  BY <1>1, <1>2 DEF CopiesAgree
<1>5. ConfirmedHaltHolds' /\ (confirmed' <=> confirmed)
  BY <1>1 DEF SwitchInv, ConfirmedHaltHolds, history
<1>6. \A d \in Busy' : AloneOK(d)'
  BY <1>1, <1>2 DEF AloneOK, Busy
<1>7. \A d \in Busy' \ {Starter} : SureOK(d)'
  BY <1>1, <1>2 DEF SwitchInv, SureOK, Busy
<1>8. /\ call'[Starter].step \in {"none", "mirror"}
      /\ confirmed' => \A d \in Busy' \ {Starter} : call'[d].on
  BY <1>2, <1>5 DEF SwitchInv, Busy
<1> QED BY <1>3, <1>4, <1>5, <1>6, <1>7, <1>8 DEF SwitchInv

(* The starter leaves, and a call under way is not alone beside it. *)
LEMMA StartEndsOK ==
  ASSUME SwitchInv, StartWritesMirror \/ StartRaises
  PROVE  SwitchInv'
<1>1. /\ Leaves(Starter) /\ call[Starter].step = "mirror"
      /\ UNCHANGED <<active, halted, loss, inbox, confirmed>>
  BY DEF StartWritesMirror, StartRaises, stores
<1>2. \A d \in Busy \ {Starter} : ~call[d].alone
  BY <1>1, Callers DEF SwitchInv, AloneOK, Busy
<1>3. /\ call' \in [Caller -> CallState]
      /\ call'[Starter].step = "none"
      /\ \A d \in Caller \ {Starter} : call'[d] = call[d]
      /\ Busy' = Busy \ {Starter}
      /\ \A d \in Busy' : AloneOK(d)'
      /\ \A d \in Busy' \ {Starter} : SureOK(d)'
  BY <1>1, <1>2, LeaveOK, Callers
<1>4. call[Starter] \in CallState /\ Starter \in Busy
  BY <1>1, Callers DEF SwitchInv, SwitchTypeOK, CallState, Busy
<1>5. SwitchTypeOK'
  <2>1. mirror' \in BOOLEAN /\ torn' \in BOOLEAN
    BY <1>4 DEF StartWritesMirror, StartRaises, stores, SwitchInv, SwitchTypeOK,
              CallState
  <2>2. faults' \in 0 .. MaxFaults
    BY ApiAssumption
    DEF StartWritesMirror, StartRaises, Fault, SwitchInv, SwitchTypeOK
  <2>3. agent' \in {"up", "down"}
    BY DEF StartWritesMirror, StartRaises
  <2> QED
    BY <1>1, <1>3, <2>1, <2>2, <2>3
    DEF SwitchInv, SwitchTypeOK, CallState, inbox
<1>6. CopiesAgree'
  <2> SUFFICES ASSUME torn' = FALSE PROVE CopiesAgree'
    BY <1>5 DEF SwitchTypeOK, CopiesAgree
  <2>1. StartWritesMirror
    BY DEF StartRaises
  <2>2. call[Starter].alone /\ active = call[Starter].on
    BY <2>1 DEF StartWritesMirror
  <2>3. halted = call[Starter].on
    BY <1>1, <1>4, <2>2 DEF SwitchInv, AloneOK
  <2>4. mirror' = call[Starter].on
    BY <2>1 DEF StartWritesMirror
  <2> QED BY <1>1, <2>2, <2>3, <2>4 DEF CopiesAgree
<1>7. /\ confirmed' => halted'
      /\ confirmed' => \A d \in Busy' \ {Starter} : call'[d].on
  BY <1>1, <1>3 DEF SwitchInv, ConfirmedHaltHolds, Busy
<1> QED BY <1>3, <1>5, <1>6, <1>7 DEF SwitchInv, ConfirmedHaltHolds

LEMMA CrashOK ==
  ASSUME SwitchInv, Crash
  PROVE  SwitchInv'
<1>1. /\ call' \in [Caller -> CallState] /\ Busy' = {}
      /\ call'[Starter].step = "none"
  BY Callers DEF Crash, Busy, NoCall
<1>2. faults' \in 0 .. MaxFaults
  BY ApiAssumption DEF Crash, Fault, SwitchInv, SwitchTypeOK
<1>3. SwitchTypeOK'
  <2>1. 0 \in 0 .. MaxRetries + 1
    BY ApiAssumption
  <2> QED BY <1>1, <1>2, <2>1 DEF Crash, SwitchInv, SwitchTypeOK, CallState
<1>4. CopiesAgree' /\ ConfirmedHaltHolds'
  BY DEF Crash, SwitchInv, CopiesAgree, ConfirmedHaltHolds
<1> QED BY <1>1, <1>3, <1>4 DEF SwitchInv

LEMMA SetMirrorOK ==
  ASSUME SwitchInv, SetMirror
  PROVE  SwitchInv'
<1>1. call \in [Caller -> CallState]
  BY DEF SwitchInv, SwitchTypeOK, CallState
<1>2. ASSUME NEW d \in Caller
      PROVE  /\ call'[d] \in CallState
             /\ call'[d].step = call[d].step /\ call'[d].on = call[d].on
             /\ call'[d].alone = FALSE /\ call'[d].sure = call[d].sure
  <2>1. call'[d] = [call[d] EXCEPT !.alone = FALSE] /\ call[d] \in CallState
    BY <1>1 DEF SetMirror
  <2> QED BY <2>1 DEF CallState
<1>3. call' \in [Caller -> CallState] /\ Busy' = Busy
  BY <1>2 DEF SetMirror, Busy
<1>4. /\ mirror' = TRUE /\ torn' = TRUE
      /\ UNCHANGED <<agent, active, halted, loss, inbox, faults, confirmed>>
  BY DEF SetMirror
<1>5. SwitchTypeOK'
  BY <1>2, <1>3, <1>4, Callers DEF SwitchInv, SwitchTypeOK, CallState, inbox
<1>6. CopiesAgree' /\ ConfirmedHaltHolds'
  BY <1>4 DEF SwitchInv, CopiesAgree, ConfirmedHaltHolds
<1>7. \A d \in Busy' : AloneOK(d)'
  BY <1>2, <1>3 DEF AloneOK, Busy
<1>8. \A d \in Busy' \ {Starter} : SureOK(d)'
  BY <1>2, <1>3, <1>4 DEF SwitchInv, SureOK, Busy
<1>9. /\ call'[Starter].step \in {"none", "mirror"}
      /\ confirmed' => \A d \in Busy' \ {Starter} : call'[d].on
  BY <1>2, <1>3, <1>4, Callers DEF SwitchInv, Busy
<1> QED BY <1>5, <1>6, <1>7, <1>8, <1>9 DEF SwitchInv

LEMMA QuietOK ==
  ASSUME SwitchInv,
         \/ Subscribe \/ ListenRaises
         \/ LossChanges \/ Publish \/ AlertLost \/ UNCHANGED vars
  PROVE  SwitchInv'
<1>1. UNCHANGED <<agent, stores, call, history>>
  BY DEF Subscribe, ListenRaises, LossChanges, Publish, AlertLost, inbox, vars
<1>2. loss' \in BOOLEAN /\ alert' \in BOOLEAN /\ subscribed' \in BOOLEAN
  BY DEF Subscribe, ListenRaises, LossChanges, Publish, AlertLost, inbox, vars,
         SwitchInv, SwitchTypeOK
<1>3. retries' \in 0 .. MaxRetries + 1
  BY ApiAssumption
  DEF Subscribe, ListenRaises, Listening, LossChanges, Publish, AlertLost, inbox,
      vars, SwitchInv, SwitchTypeOK
<1>4. faults' \in 0 .. MaxFaults
  BY ApiAssumption
  DEF Subscribe, ListenRaises, LossChanges, Publish, AlertLost, inbox, vars,
      Fault, SwitchInv, SwitchTypeOK
<1> QED
  BY <1>1, <1>2, <1>3, <1>4
  DEF SwitchInv, SwitchTypeOK, CopiesAgree, ConfirmedHaltHolds, AloneOK, SureOK,
      Busy, stores, history

-----------------------------------------------------------------------------
LEMMA SwitchInvariant == Spec => []SwitchInv
<1>1. Init => SwitchInv
  <2> SUFFICES ASSUME Init PROVE SwitchInv
    OBVIOUS
  <2>1. Busy = {} /\ call[Starter].step = "none"
    BY Callers DEF Init, Busy, NoCall
  <2>2. SwitchTypeOK
    <3>1. call \in [Caller -> CallState] /\ faults \in 0 .. MaxFaults
      BY Callers, ApiAssumption DEF Init
    <3>2. torn \in BOOLEAN /\ confirmed \in BOOLEAN
      BY DEF Init
    <3>3. active \in BOOLEAN /\ halted \in BOOLEAN /\ mirror \in BOOLEAN
          /\ loss \in BOOLEAN /\ alert \in BOOLEAN /\ subscribed \in BOOLEAN
      BY DEF Init
    <3>4. retries \in 0 .. MaxRetries + 1
      BY ApiAssumption DEF Init
    <3> QED BY <2>1, <3>1, <3>2, <3>3, <3>4 DEF Init, SwitchTypeOK, CallState
  <2> QED BY <2>1, <2>2 DEF Init, SwitchInv, CopiesAgree, ConfirmedHaltHolds
<1>2. SwitchInv /\ [Next]_vars => SwitchInv'
  <2> SUFFICES ASSUME SwitchInv, [Next]_vars PROVE SwitchInv'
    OBVIOUS
  <2>1. ASSUME NEW c \in Caller, NEW on \in BOOLEAN, Request(c, on)
        PROVE  SwitchInv'
    BY <2>1, BeginOK, Callers DEF Request, inbox, SwitchInv, SwitchTypeOK
  <2>2. CASE Listen
    BY <2>2, BeginOK, Callers DEF Listen
  <2> QED
    BY <2>1, <2>2, WriteOK, AnswerOK, CallRaisesOK, StartReadsOK, StartEndsOK,
       CrashOK, SetMirrorOK, QuietOK
    DEF Next, CallGoesOn
<1> QED BY <1>1, <1>2, PTL DEF Spec

(***************************************************************************)
(* The copies of the switch and the calls keep their types.                *)
(***************************************************************************)
THEOREM SwitchTypeCorrect == Spec => []SwitchTypeOK
<1>1. SwitchInv => SwitchTypeOK
  BY DEF SwitchInv
<1> QED BY <1>1, SwitchInvariant, PTL

(***************************************************************************)
(* An activation that was answered halts the gateway until somebody asks   *)
(* to resume.                                                              *)
(***************************************************************************)
THEOREM ConfirmedHaltStands == Spec => []ConfirmedHaltHolds
<1>1. SwitchInv => ConfirmedHaltHolds
  BY DEF SwitchInv
<1> QED BY <1>1, SwitchInvariant, PTL

(***************************************************************************)
(* Memory, row and hash say the same between calls that nothing disturbed. *)
(***************************************************************************)
THEOREM CopiesOfTheSwitchAgree == Spec => []CopiesAgree
<1>1. SwitchInv => CopiesAgree
  BY DEF SwitchInv
<1> QED BY <1>1, SwitchInvariant, PTL

=============================================================================
