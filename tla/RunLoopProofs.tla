--------------------------- MODULE RunLoopProofs ---------------------------
(***************************************************************************)
(* That run hands out one Ready at a time and that Propose reports what    *)
(* became of its own proposal, for any number of goroutines of each kind,  *)
(* one goroutine calling several methods included.                         *)
(*                                                                         *)
(* The second needs ResultSound: a channel that has an answer has that of  *)
(* the present call, and a call that run has not taken yet has neither an  *)
(* answer nor a result, so that a late answer of run to a call that was    *)
(* given up cannot reach the next one.                                     *)
(***************************************************************************)
EXTENDS RunLoop, TLAPS

TypeOK ==
  /\ call \in [Callers -> {"idle", "send", "wait"}]
  /\ answer \in [Proposers -> {"none", "nil", "dropped"}]
  /\ result \in [Proposers -> {"none", "nil", "dropped", "ctx", "stopped"}]
  /\ outcome \in [Proposers -> {"none", "nil", "dropped"}]

ReadySound ==
  /\ advancec \in BOOLEAN /\ readyc \in BOOLEAN
  /\ OneReadyAtATime

ResultSound ==
  \A c \in Proposers :
    /\ answer[c] # "none" => answer[c] = outcome[c]
    /\ call[c] = "send" => answer[c] = "none"
    /\ call[c] # "idle" => result[c] = "none"

LoopInv == TypeOK /\ ResultSound /\ AnswerTruthful

-----------------------------------------------------------------------------
(* One Ready at a time.                                                    *)

\* At the top of the loop readyc is set only when no Advance is awaited.
LEMMA LoopTopReady ==
    ASSUME LoopTop, advancec' \in BOOLEAN
    PROVE  readyc' \in BOOLEAN /\ pc' = "select" /\ (advancec' => ~readyc')
  BY Zenon DEF LoopTop

\* A pass of the loop that leaves advancec and the application alone.
LEMMA PassReady ==
    ASSUME ReadySound, LoopTop, pc # "over", UNCHANGED <<advancec, app>>
    PROVE  ReadySound'
<1>1. advancec' = advancec /\ app' = app
  OBVIOUS
<1>2. advancec' \in BOOLEAN
  BY <1>1, Zenon DEF ReadySound
<1>3. readyc' \in BOOLEAN /\ (advancec' => ~readyc')
  BY <1>2, LoopTopReady, Zenon
<1>4. advancec' <=> app' = "working"
  <2>1. advancec <=> app = "working"
    BY DEF ReadySound, OneReadyAtATime
  <2>2. CASE advancec = TRUE
    BY <1>1, <2>1, <2>2
  <2>3. CASE advancec = FALSE
    BY <1>1, <2>1, <2>3
  <2> QED BY <2>2, <2>3, Zenon DEF ReadySound
<1> QED BY <1>2, <1>3, <1>4, Zenon DEF ReadySound, OneReadyAtATime

\* A step that leaves the channels of run alone.
LEMMA IdleReady ==
    ASSUME ReadySound, pc' # "over" => pc # "over", UNCHANGED <<readyc, advancec, app>>
    PROVE  ReadySound'
<1>1. advancec' = advancec /\ readyc' = readyc /\ app' = app
  OBVIOUS
<1>2. CASE advancec = TRUE
  <2>1. app' = "working" \/ pc' = "over"
    BY <1>1, <1>2 DEF ReadySound, OneReadyAtATime
  <2>2. readyc = FALSE
    BY <1>2, Zenon DEF ReadySound, OneReadyAtATime
  <2> QED BY <1>1, <1>2, <2>1, <2>2, Zenon DEF ReadySound, OneReadyAtATime
<1>3. CASE advancec = FALSE
  <2>1. app' # "working" \/ pc' = "over"
    BY <1>1, <1>3 DEF ReadySound, OneReadyAtATime
  <2>2. readyc' \in BOOLEAN
    BY <1>1, Zenon DEF ReadySound
  <2> QED BY <1>1, <1>3, <2>1, <2>2, Zenon DEF ReadySound, OneReadyAtATime
<1> QED BY <1>2, <1>3, Zenon DEF ReadySound

\* Every step keeps ReadySound.
LEMMA NextReady ==
    ASSUME ReadySound, [Next]_vars
    PROVE  ReadySound'
<1>1. CASE GiveReady
  <2>1. LoopTop /\ advancec' = TRUE /\ app' = "working"
    BY <1>1 DEF GiveReady
  <2>2. readyc' \in BOOLEAN /\ (advancec' => ~readyc')
    BY <2>1, LoopTopReady, Zenon
  <2> QED BY <2>1, <2>2, Zenon DEF ReadySound, OneReadyAtATime
<1>2. CASE TakeAdvance
  <2>1. LoopTop /\ advancec' = FALSE /\ app' = "idle" /\ "idle" # "working"
    BY <1>2 DEF TakeAdvance
  <2>2. readyc' \in BOOLEAN
    BY <2>1, LoopTopReady, Zenon
  <2> QED BY <2>1, <2>2, Zenon DEF ReadySound, OneReadyAtATime
<1>3. CASE AdvanceSeesDone
  <2>1. advancec' = advancec /\ readyc' = readyc /\ pc' = "over"
    BY <1>3 DEF AdvanceSeesDone, loopVars
  <2> QED BY <2>1, Zenon DEF ReadySound, OneReadyAtATime
<1>4. CASE SendResult \/ SendStatus \/ TakeTick \/ \E c \in Callers : TakeMessage(c)
  <2>1. LoopTop /\ pc # "over" /\ UNCHANGED <<advancec, app>>
    BY <1>4 DEF SendResult, SendStatus, TakeTick, TakeMessage
  <2> QED BY <2>1, PassReady
<1>5. CASE \/ UNCHANGED vars
           \/ \E c \in Callers : \/ Call(c) \/ TakeProposal(c) \/ TakeStatus(c) \/ TakeStop(c)
                                 \/ ReceiveResult(c) \/ ContextDone(c) \/ SeeDone(c)
  <2>1. (pc' # "over" => pc # "over") /\ UNCHANGED <<readyc, advancec, app>>
    BY <1>5 DEF vars, loopVars, Call, TakeProposal, TakeStatus, TakeStop, ReceiveResult, ContextDone, SeeDone
  <2> QED BY <2>1, IdleReady
<1> QED BY <1>1, <1>2, <1>3, <1>4, <1>5 DEF Next

\* The application has an unconfirmed Ready exactly while run waits for
\* Advance, and is offered no other.
THEOREM OneReady == Spec => []OneReadyAtATime
<1>1. Init => ReadySound
  <2>1. Init => advancec = FALSE /\ readyc = FALSE /\ app = "idle" /\ "idle" # "working"
    BY DEF Init
  <2> QED BY <2>1, Zenon DEF ReadySound, OneReadyAtATime
<1>2. ReadySound /\ [Next]_vars => ReadySound'
  BY NextReady
<1>3. ReadySound => OneReadyAtATime
  BY DEF ReadySound
<1> QED BY <1>1, <1>2, <1>3, PTL DEF Spec

-----------------------------------------------------------------------------
(* The result of Propose.                                                  *)

\* A call that returns with something else than an answer of run, or with one.
LEMMA ReturnSound ==
    ASSUME LoopInv, NEW c \in Callers, NEW with \in {"nil", "dropped", "ctx", "stopped"},
           Return(c, with), UNCHANGED <<answer, outcome>>,
           c \in Proposers /\ with \in {"nil", "dropped"} => with = outcome[c]
    PROVE  LoopInv'
<1>1. call' = [call EXCEPT ![c] = "idle"] /\ answer' = answer /\ outcome' = outcome
  BY DEF Return
<1>2. result' = [q \in Proposers |-> IF q = c THEN with ELSE result[q]]
  BY DEF Return
<1>3. TypeOK'
  BY <1>1, <1>2 DEF LoopInv, TypeOK
<1>4. ResultSound'
  BY <1>1, <1>2 DEF LoopInv, TypeOK, ResultSound, Callers
<1>5. AnswerTruthful'
  BY <1>1, <1>2 DEF LoopInv, AnswerTruthful
<1> QED BY <1>3, <1>4, <1>5 DEF LoopInv

\* A new call empties its channel and its result.
LEMMA CallSound ==
    ASSUME LoopInv, NEW c \in Callers, Call(c)
    PROVE  LoopInv'
<1>1. /\ call' = [call EXCEPT ![c] = "send"]
      /\ answer' = [q \in Proposers |-> IF q = c THEN "none" ELSE answer[q]]
      /\ result' = [q \in Proposers |-> IF q = c THEN "none" ELSE result[q]]
      /\ outcome' = [q \in Proposers |-> IF q = c THEN "none" ELSE outcome[q]]
  BY DEF Call
<1>2. TypeOK'
  BY <1>1 DEF LoopInv, TypeOK
<1>3. ResultSound'
  BY <1>1 DEF LoopInv, TypeOK, ResultSound, Callers
<1>4. AnswerTruthful'
  BY <1>1 DEF LoopInv, AnswerTruthful
<1> QED BY <1>2, <1>3, <1>4 DEF LoopInv

\* run takes a proposal: its channel is still empty.
LEMMA TakeProposalSound ==
    ASSUME LoopInv, NEW c \in Callers, TakeProposal(c)
    PROVE  LoopInv'
<1>1. PICK err \in {"nil", "dropped"} : outcome' = [outcome EXCEPT ![c] = err]
  BY DEF TakeProposal
<1>2. /\ c \in Proposers /\ call[c] = "send"
      /\ call' = [call EXCEPT ![c] = "wait"] /\ answer' = answer /\ result' = result
  BY DEF TakeProposal
<1>3. TypeOK'
  BY <1>1, <1>2 DEF LoopInv, TypeOK
<1>4. ResultSound'
  BY <1>1, <1>2 DEF LoopInv, TypeOK, ResultSound, Callers
<1>5. AnswerTruthful'
  BY <1>1, <1>2 DEF LoopInv, TypeOK, ResultSound, AnswerTruthful
<1> QED BY <1>3, <1>4, <1>5 DEF LoopInv

\* run answers: only a call that still waits gets the answer.
LEMMA SendResultSound ==
    ASSUME LoopInv, SendResult
    PROVE  LoopInv'
<1>1. /\ answer' = [answer EXCEPT ![serving] = IF call[serving] = "wait" THEN outcome[serving]
                                               ELSE answer[serving]]
      /\ call' = call /\ result' = result /\ outcome' = outcome
  BY DEF SendResult
<1>2. TypeOK'
  BY <1>1 DEF LoopInv, TypeOK
<1>3. ResultSound'
  BY <1>1 DEF LoopInv, TypeOK, ResultSound
<1>4. AnswerTruthful'
  BY <1>1 DEF LoopInv, AnswerTruthful
<1> QED BY <1>2, <1>3, <1>4 DEF LoopInv

\* A step that only moves callers out of the first select, or back to idle.
LEMMA ServeSound ==
    ASSUME LoopInv, NEW c, NEW state \in {"idle", "wait"}, call[c] # "idle" \/ state = "idle",
           call' = [call EXCEPT ![c] = state], UNCHANGED <<answer, result, outcome>>
    PROVE  LoopInv'
<1>1. answer' = answer /\ result' = result /\ outcome' = outcome
  OBVIOUS
<1>2. TypeOK'
  BY <1>1 DEF LoopInv, TypeOK
<1>3. ResultSound'
  BY <1>1 DEF LoopInv, TypeOK, ResultSound, Callers
<1>4. AnswerTruthful'
  BY <1>1 DEF LoopInv, AnswerTruthful
<1> QED BY <1>2, <1>3, <1>4 DEF LoopInv

\* Every step keeps the invariant.
LEMMA NextSound ==
    ASSUME LoopInv, [Next]_vars
    PROVE  LoopInv'
<1>1. ASSUME NEW c \in Callers, Call(c) PROVE LoopInv'
  BY <1>1, CallSound
<1>2. ASSUME NEW c \in Callers, TakeProposal(c) PROVE LoopInv'
  BY <1>2, TakeProposalSound
<1>3. ASSUME NEW c \in Callers, TakeMessage(c) PROVE LoopInv'
  <2>1. /\ call' = [call EXCEPT ![c] = "idle"] /\ UNCHANGED <<answer, result, outcome>>
    BY <1>3 DEF TakeMessage
  <2> QED BY <2>1, ServeSound
<1>4. ASSUME NEW c \in Callers, TakeStatus(c) \/ TakeStop(c) PROVE LoopInv'
  <2>1. /\ call[c] # "idle" /\ call' = [call EXCEPT ![c] = "wait"]
        /\ UNCHANGED <<answer, result, outcome>>
    BY <1>4 DEF TakeStatus, TakeStop
  <2> QED BY <2>1, ServeSound
<1>5. ASSUME NEW c \in Callers, ReceiveResult(c) PROVE LoopInv'
  <2>1. /\ c \in Proposers /\ answer[c] # "none" /\ Return(c, answer[c])
        /\ UNCHANGED <<answer, outcome>>
    BY <1>5 DEF ReceiveResult
  <2>2. answer[c] \in {"nil", "dropped"} /\ answer[c] = outcome[c]
    BY <2>1 DEF LoopInv, TypeOK, ResultSound
  <2> QED BY <2>1, <2>2, ReturnSound
<1>6. ASSUME NEW c \in Callers, ContextDone(c) PROVE LoopInv'
  BY <1>6, ReturnSound DEF ContextDone
<1>7. ASSUME NEW c \in Callers, SeeDone(c) PROVE LoopInv'
  BY <1>7, ReturnSound DEF SeeDone
<1>8. CASE SendResult
  BY <1>8, SendResultSound
<1>9. CASE SendStatus
  <2>1. call' = [call EXCEPT ![serving] = "idle"] /\ UNCHANGED <<answer, result, outcome>>
    BY <1>9 DEF SendStatus
  <2> QED BY <2>1, ServeSound
<1>10. CASE TakeTick \/ GiveReady \/ TakeAdvance \/ AdvanceSeesDone \/ UNCHANGED vars
  <2>1. UNCHANGED <<call, answer, result, outcome>>
    BY <1>10 DEF TakeTick, GiveReady, TakeAdvance, AdvanceSeesDone, vars, callVars
  <2> QED BY <2>1 DEF LoopInv, TypeOK, ResultSound, AnswerTruthful
<1> QED BY <1>1, <1>2, <1>3, <1>4, <1>5, <1>6, <1>7, <1>8, <1>9, <1>10 DEF Next

\* Propose returns nil or ErrProposalDropped only if that is what became of
\* this very proposal.
THEOREM AnswersAreTruthful == Spec => []AnswerTruthful
<1>1. Init => LoopInv
  BY DEF Init, LoopInv, TypeOK, ResultSound, AnswerTruthful, Callers
<1>2. LoopInv /\ [Next]_vars => LoopInv'
  BY NextSound
<1>3. LoopInv => AnswerTruthful
  BY DEF LoopInv
<1> QED BY <1>1, <1>2, <1>3, PTL DEF Spec
=============================================================================
