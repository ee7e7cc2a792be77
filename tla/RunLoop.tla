------------------------------ MODULE RunLoop ------------------------------
(***************************************************************************)
(* raft/node.go, rawnode.go, status.go: the goroutine node.run that owns   *)
(* the raft instance, and the goroutines that call the methods of Node.    *)
(* They meet on unbuffered channels: a send and its receive are one step.  *)
(* What r.Step and r.tick do to the instance is left open here, except for *)
(* what run looks at: the leader, and whether there is something to hand   *)
(* out (the handlers themselves are in RaftStep).                          *)
(***************************************************************************)
EXTENDS Integers, FiniteSets

CONSTANTS Proposers,  \* goroutines that call Propose (and wait for its result)
          Senders,    \* Step, ReadIndex, TransferLeadership: recvc, with a context
          Reporters,  \* ReportUnreachable, ReportSnapshot: recvc, without one
          Watchers,   \* Status
          Stoppers,   \* Stop
          None, Peer  \* no leader, a leader

Callers == Proposers \cup Senders \cup Reporters \cup Watchers \cup Stoppers

VARIABLES call,      \* "idle", "send" (first select), "wait" (for the answer)
          answer,    \* content of a proposal's result channel
          result,    \* what the last Propose returned
          outcome,   \* history: what r.Step said to the call's proposal
          pc,        \* of run: "select", "result", "status", "over"
          serving,   \* the caller that run answers when pc is "result" or "status"
          raft,      \* the instance: [lead, news, msgs]
          lead,      \* local variables of run
          propc, readyc, advancec,  \* is the channel variable non-nil?
          app        \* the application: "idle" or "working" on a Ready (external)

loopVars == <<pc, serving, raft, lead, propc, readyc, advancec>>
callVars == <<call, answer, result, outcome>>
vars == <<callVars, loopVars, app>>

----------------------------------------------------------------------------
(* The instance.                                                           *)

hasLeader(r) == r.lead # None

(* news: the soft or hard state differs from the first one, or there are   *)
(* entries to apply or readStates.                                         *)
RaftStates == [lead : {None, Peer}, news : BOOLEAN, msgs : BOOLEAN]

(* Whatever Step or tick does, it only adds to msgs. *)
Stepped(r) == {s \in RaftStates : r.msgs => s.msgs}

(* RawNode.HasReady.  newReady fills in Entries alone, so acceptReady never *)
(* replaces prevSoftSt, Adbvance never replaces preHardSt (both keep the   *)
(* initial state), and readStates are never taken: news stays.             *)
HasReady(r) == r.lead # None \/ r.news \/ r.msgs

acceptReady(r) == [r EXCEPT !.msgs = FALSE]

(* RawNode.Adbvance: the Ready's HardState is empty, raft.advance a stub. *)
Adbvance(r) == r

----------------------------------------------------------------------------
(* run: the top of the loop, from the end of a case to the next select.    *)

LoopTop ==
  /\ pc' = "select"
  /\ readyc' = (~advancec' /\ (HasReady(raft') \/ readyc))
  /\ lead' = raft'.lead
  /\ propc' = IF lead # raft'.lead THEN hasLeader(raft') ELSE propc

(* case pm := <-propc *)
TakeProposal(c) ==
  /\ pc = "select" /\ propc
  /\ c \in Proposers /\ call[c] = "send"
  /\ call' = [call EXCEPT ![c] = "wait"]
  /\ \E err \in {"nil", "dropped"} : outcome' = [outcome EXCEPT ![c] = err]
  /\ raft' \in Stepped(raft)
  /\ pc' = "result" /\ serving' = c
  /\ UNCHANGED <<answer, result, lead, propc, readyc, advancec, app>>

\* Mutant of SendResult: a channel without a buffer.
SendResultUnbuffered ==
  /\ pc = "result"
  /\ call[serving] = "wait"
  /\ answer' = [answer EXCEPT ![serving] = outcome[serving]]
  /\ serving' = None
  /\ UNCHANGED <<raft, advancec, call, result, outcome, app>>
  /\ LoopTop

\* Mutant of SendResult: the error of Step is not passed on.
SendResultNil ==
  /\ pc = "result"
  /\ answer' = [answer EXCEPT ![serving] = IF call[serving] = "wait" THEN "nil" ELSE @]
  /\ serving' = None
  /\ UNCHANGED <<raft, advancec, call, result, outcome, app>>
  /\ LoopTop

(* pm.result <- err: the channel has room for one answer, and its caller   *)
(* may have left (then nobody reads it).                                   *)
SendResult ==
  /\ pc = "result"
  /\ answer' = [answer EXCEPT ![serving] = IF call[serving] = "wait" THEN outcome[serving] ELSE @]
  /\ serving' = None
  /\ UNCHANGED <<raft, advancec, call, result, outcome, app>>
  /\ LoopTop

(* case m := <-n.recvc; the call returns nil at once. *)
TakeMessage(c) ==
  /\ pc = "select"
  /\ c \in Senders \cup Reporters /\ call[c] = "send"
  /\ call' = [call EXCEPT ![c] = "idle"]
  /\ raft' \in Stepped(raft)
  /\ UNCHANGED <<serving, advancec, answer, result, outcome, app>>
  /\ LoopTop

(* case <-n.tickc.  A Tick that finds run busy is dropped. *)
TakeTick ==
  /\ pc = "select"
  /\ raft' \in Stepped(raft)
  /\ UNCHANGED <<serving, advancec, callVars, app>>
  /\ LoopTop

\* Mutant of GiveReady: run does not wait for Advance.
GiveReadyNoAdvance ==
  /\ pc = "select" /\ readyc
  /\ app = "idle"
  /\ app' = "working"
  /\ raft' = acceptReady(raft)
  /\ UNCHANGED <<serving, advancec, callVars>>
  /\ LoopTop

(* case readyc <- rd *)
GiveReady ==
  /\ pc = "select" /\ readyc
  /\ app = "idle"
  /\ app' = "working"
  /\ raft' = acceptReady(raft)
  /\ advancec' = TRUE
  /\ UNCHANGED <<serving, callVars>>
  /\ LoopTop

(* case <-advancec *)
TakeAdvance ==
  /\ pc = "select" /\ advancec
  /\ app = "working"
  /\ app' = "idle"
  /\ advancec' = FALSE
  /\ raft' = Adbvance(raft)
  /\ UNCHANGED <<serving, callVars>>
  /\ LoopTop

(* case c := <-n.status: the caller waits for the answer and nothing else. *)
TakeStatus(c) ==
  /\ pc = "select"
  /\ c \in Watchers /\ call[c] = "send"
  /\ call' = [call EXCEPT ![c] = "wait"]
  /\ pc' = "status" /\ serving' = c
  /\ UNCHANGED <<raft, lead, propc, readyc, advancec, answer, result, outcome, app>>

SendStatus ==
  /\ pc = "status"
  /\ call[serving] = "wait"
  /\ call' = [call EXCEPT ![serving] = "idle"]
  /\ serving' = None
  /\ UNCHANGED <<raft, advancec, answer, result, outcome, app>>
  /\ LoopTop

(* case <-n.stop: close(n.done). *)
TakeStop(c) ==
  /\ pc = "select"
  /\ c \in Stoppers /\ call[c] = "send"
  /\ call' = [call EXCEPT ![c] = "wait"]
  /\ pc' = "over"
  /\ UNCHANGED <<serving, raft, lead, propc, readyc, advancec, answer, result, outcome, app>>

----------------------------------------------------------------------------
(* The callers.                                                            *)

Return(c, with) ==
  /\ call' = [call EXCEPT ![c] = "idle"]
  /\ result' = [q \in Proposers |-> IF q = c THEN with ELSE result[q]]

(* A call of its method by goroutine c: a new context, a new channel. *)
Call(c) ==
  /\ call[c] = "idle"
  /\ call' = [call EXCEPT ![c] = "send"]
  /\ answer' = [q \in Proposers |-> IF q = c THEN "none" ELSE answer[q]]
  /\ result' = [q \in Proposers |-> IF q = c THEN "none" ELSE result[q]]
  /\ outcome' = [q \in Proposers |-> IF q = c THEN "none" ELSE outcome[q]]
  /\ UNCHANGED <<loopVars, app>>

(* err := <-pm.result *)
ReceiveResult(c) ==
  /\ c \in Proposers /\ call[c] = "wait" /\ answer[c] # "none"
  /\ Return(c, answer[c])
  /\ UNCHANGED <<answer, outcome, loopVars, app>>

(* <-ctx.Done(), in either select *)
ContextDone(c) ==
  /\ c \in Proposers \cup Senders /\ call[c] # "idle"
  /\ Return(c, "ctx")
  /\ UNCHANGED <<answer, outcome, loopVars, app>>

(* <-n.done: closed, so it is received by everybody who selects on it; a   *)
(* Status call does so only before it is served.                           *)
SeeDone(c) ==
  /\ pc = "over"
  /\ call[c] # "idle"
  /\ c \in Watchers => call[c] = "send"
  /\ Return(c, "stopped")
  /\ UNCHANGED <<answer, outcome, loopVars, app>>

(* Advance() of the application returns as well. *)
AdvanceSeesDone ==
  /\ pc = "over" /\ app = "working"
  /\ app' = "idle"
  /\ UNCHANGED <<callVars, loopVars>>

----------------------------------------------------------------------------
Init ==
  /\ call = [c \in Callers |-> "idle"]
  /\ answer = [c \in Proposers |-> "none"]
  /\ result = [c \in Proposers |-> "none"]
  /\ outcome = [c \in Proposers |-> "none"]
  /\ pc = "select" /\ serving = None
  /\ raft = [lead |-> None, news |-> FALSE, msgs |-> FALSE]
  /\ lead = None
  /\ propc = FALSE /\ readyc = FALSE /\ advancec = FALSE
  /\ app = "idle"

Next ==
  \/ \E c \in Callers :
       \/ Call(c)
       \/ TakeProposal(c) \/ TakeMessage(c) \/ TakeStatus(c) \/ TakeStop(c)
       \/ ReceiveResult(c) \/ ContextDone(c) \/ SeeDone(c)
  \/ SendResult \/ SendStatus \/ TakeTick \/ GiveReady \/ TakeAdvance \/ AdvanceSeesDone

Spec == Init /\ [][Next]_vars

(* The scheduler runs every goroutine that can go on, and select chooses   *)
(* at random among the cases that are ready: one that is ready again and   *)
(* again is taken.  A context ends while nobody takes the call; one that   *)
(* was taken must not need that.  Nothing is assumed of the application.   *)
Fairness ==
  /\ WF_vars(SendResult) /\ WF_vars(SendStatus)
  /\ \A c \in Proposers : WF_vars(ReceiveResult(c))
  /\ \A c \in Proposers \cup Senders : WF_vars(call[c] = "send" /\ ContextDone(c))
  /\ \A c \in Callers : WF_vars(SeeDone(c))
  /\ \A c \in Reporters : SF_vars(TakeMessage(c))
  /\ \A c \in Watchers : SF_vars(TakeStatus(c))
  /\ \A c \in Stoppers : SF_vars(TakeStop(c))

FairSpec == Spec /\ Fairness
----------------------------------------------------------------------------
(* Properties.                                                             *)

(* The application has a Ready that it has not confirmed exactly while run *)
(* waits for Advance, and meanwhile no other Ready is offered              *)
(* (node.go:188-193, 228-234).                                             *)
OneReadyAtATime ==
  /\ pc # "over" => (advancec <=> app = "working")
  /\ advancec => ~readyc

(* Propose returns nil only if this very proposal was stepped and taken,   *)
(* and ErrProposalDropped only if it was refused, although callers give up *)
(* and call again while run still answers the call before (node.go:213).   *)
AnswerTruthful ==
  \A c \in Proposers : result[c] \in {"nil", "dropped"} => result[c] = outcome[c]

(* Every call returns: nobody waits forever on run, and run never on a     *)
(* caller that left (node.go:276) nor on one that it serves.               *)
CallsReturn == \A c \in Callers : call[c] # "idle" ~> call[c] = "idle"
=============================================================================
