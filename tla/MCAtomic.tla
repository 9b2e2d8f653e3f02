------------------------------- MODULE MCAtomic -------------------------------
(* Two beats of two lanes; the core uses a word of each.                   *)
EXTENDS Atomic

MCCpuWords == {<<0, 1>>, <<1, 0>>}
MCAmo == [v \in Values |-> Some(IF Values = {v} THEN Values ELSE Values \ {v})]
=============================================================================
