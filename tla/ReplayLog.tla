------------------------------ MODULE ReplayLog ------------------------------
(***************************************************************************)
(* What a job's chunk stream promises its consumers, independently of how  *)
(* the replay buffer keeps the chunks: an append-only log, and consumers   *)
(* that read it in order from the sequence number they resume at.  A       *)
(* consumer may be told that it lost data, but only when there really was  *)
(* something it had not read; it is never moved past a chunk silently, and *)
(* it only reaches the regular end of the stream behind a terminal frame.  *)
(***************************************************************************)
EXTENDS Naturals, Sequences

CONSTANTS
  Consumers,     \* the StreamChunks calls of one job
  Kinds,         \* the kinds of chunk
  TerminalKinds  \* the kinds that end a stream: completed and error

VARIABLES
  log,    \* every chunk ever published, in order; chunk number s is log[s + 1]
  state,  \* [Consumers -> "idle" | "live" | "ended" | "gap" | "cancelled"]
  pos     \* [Consumers -> number of the next chunk the consumer is to get]

vars == <<log, state, pos>>

Init ==
  /\ log = <<>>
  /\ state = [c \in Consumers |-> "idle"]
  /\ pos = [c \in Consumers |-> 0]

Publish(k) ==
  /\ log' = Append(log, k)
  /\ UNCHANGED <<state, pos>>

\* A consumer opens the stream at any number it likes.
Open(c) ==
  /\ state[c] = "idle"
  /\ pos'[c] \in Nat
  /\ pos' = [pos EXCEPT ![c] = pos'[c]]
  /\ state' = [state EXCEPT ![c] = "live"]
  /\ UNCHANGED log

\* The next chunk in order, and only that one.
Deliver(c) ==
  /\ state[c] = "live"
  /\ pos[c] < Len(log)
  /\ pos' = [pos EXCEPT ![c] = @ + 1]
  /\ UNCHANGED <<log, state>>

\* The regular end: some terminal frame lies behind the consumer.
End(c) ==
  /\ state[c] = "live"
  /\ \E i \in 1..Len(log) : log[i] \in TerminalKinds /\ i <= pos[c]
  /\ state' = [state EXCEPT ![c] = "ended"]
  /\ UNCHANGED <<log, pos>>

\* A reported loss: a chunk exists that the consumer asked for and never got.
Lose(c) ==
  /\ state[c] = "live"
  /\ pos[c] < Len(log)
  /\ state' = [state EXCEPT ![c] = "gap"]
  /\ UNCHANGED <<log, pos>>

Cancel(c) ==
  /\ state[c] = "live"
  /\ state' = [state EXCEPT ![c] = "cancelled"]
  /\ UNCHANGED <<log, pos>>

Next ==
  \/ \E k \in Kinds : Publish(k)
  \/ \E c \in Consumers : Open(c) \/ Deliver(c) \/ End(c) \/ Lose(c) \/ Cancel(c)

Spec == Init /\ [][Next]_vars
=============================================================================
