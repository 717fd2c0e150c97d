---------------------------- MODULE SampleFifo ----------------------------
(***************************************************************************)
(* What an AudioSampleQueue promises to the conversion worker: the samples *)
(* come out once, in the order in which they went in, and a copy of the    *)
(* front shows what the next discard will remove.                          *)
(***************************************************************************)
EXTENDS Sequences, Integers

CONSTANTS
  Bursts,       \* the sequences of samples that may be appended at once
  Requests      \* how many samples copy_front and discard may be asked for

VARIABLES
  items,        \* the samples that are queued, oldest first
  destination,  \* the result of the last copy_front
  call          \* the last call, so that its argument shows

fifoVars == <<items, destination, call>>

Least(a, b) == IF a <= b THEN a ELSE b

FifoInit ==
  /\ items = <<>>
  /\ destination = <<>>
  /\ call = <<"clear">>

Put(values) ==
  /\ call' = <<"append", values>>
  /\ items' = items \o values
  /\ UNCHANGED destination

Peek(requested) ==
  /\ call' = <<"copy_front", requested>>
  /\ destination' = SubSeq(items, 1, Least(requested, Len(items)))
  /\ UNCHANGED items

Drop(requested) ==
  /\ call' = <<"discard", requested>>
  /\ items' = SubSeq(items, Least(requested, Len(items)) + 1, Len(items))
  /\ UNCHANGED destination

Empty ==
  /\ call' = <<"clear">>
  /\ items' = <<>>
  /\ UNCHANGED destination

FifoNext ==
  \/ \E values \in Bursts : Put(values)
  \/ \E requested \in Requests : Peek(requested) \/ Drop(requested)
  \/ Empty

FifoSpec == FifoInit /\ [][FifoNext]_fifoVars
===========================================================================
