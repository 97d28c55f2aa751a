--------------------------- MODULE InstructionTimes ---------------------------
(***************************************************************************)
(* How long instructions of the KR580VM80A take: <<cyc, v>> with cyc the   *)
(* T-states of the chip, which i8080_cycles() returns, and v those of the  *)
(* Vector-06C, whose video takes every fourth clock and stretches each     *)
(* machine cycle to a multiple of four.  Machine takes its instructions    *)
(* from this table, and Cpu shows that no instruction leaves it.           *)
(***************************************************************************)
EXTENDS Integers

Timings == {<<4, 4>>, <<5, 8>>, <<7, 8>>, <<10, 12>>, <<11, 12>>, <<11, 16>>,
            <<13, 16>>, <<16, 20>>, <<17, 24>>, <<18, 24>>}

=============================================================================
