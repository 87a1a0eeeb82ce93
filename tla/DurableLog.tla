----------------------------- MODULE DurableLog -----------------------------
(***************************************************************************)
(* What the command pipeline promises its callers, whatever crashes and    *)
(* database failures happen: a durable history that only grows, holds each *)
(* command at most once, and holds a command before its caller is told     *)
(* that it succeeded.                                                      *)
(***************************************************************************)
EXTENDS Sequences

CONSTANT Commands

VARIABLES history, acked

vars == <<history, acked>>

Recorded == {history[i] : i \in DOMAIN history}

Init == history = <<>> /\ acked = {}

Record(c) ==
  /\ c \notin Recorded
  /\ history' = Append(history, c)
  /\ UNCHANGED acked

Acknowledge(c) ==
  /\ c \in Recorded
  /\ acked' = acked \cup {c}
  /\ UNCHANGED history

Next == \E c \in Commands : Record(c) \/ Acknowledge(c)

Spec == Init /\ [][Next]_vars

=============================================================================
