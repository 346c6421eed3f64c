------------------------------- MODULE MCCpm --------------------------------
(***************************************************************************)
(* Test programs for CpmEmulator: set the stack up, call functions Fn and  *)
(* 2 of the operating system, end.                                         *)
(***************************************************************************)
EXTENDS CpmEmulator

CONSTANTS Functions, Addresses   \* what C and DE hold in the first call

\* Page zero, the file, and where the stacks below put return addresses.
MCModelled == 0 .. 285 \union 51453 .. 51456 \union 65530 .. 65534

\* No stack; LXI SP, 65534; LHLD 6, SPHL as CP/M programs do.
Stacks == {<<>>, <<\h31, \hfe, \hff>>, <<\h2a, 6, 0, \hf9>>}

\* JMP 0, RST 0, RET, HLT.
Endings == {<<\hc3, 0, 0>>, <<\hc7>>, <<\hc9>>, <<\h76>>}

\* MVI C; LXI D; CALL 5; MVI C, 2; CALL 5.
Calling(fn, address) ==
  <<\h0e, fn, \h11, lo(address), hi(address), \hcd, 5, 0, \h0e, 2, \hcd, 5, 0>>

\* The data begins at offset + 24 = 280.
File(code, data) == [i \in 1 .. 24 |-> IF i <= Len(code) THEN code[i] ELSE 0] \o data

MCFiles ==
  {File(s \o Calling(fn, address) \o e, <<72, 73, Dollar, 74>>) :
     s \in Stacks, fn \in Functions, address \in Addresses, e \in Endings}
  \union {File(<<\h31, \hfe, \hff>> \o Calling(9, 280) \o <<\hc7>>, <<72, 73>>)}

ASSUME HostIsCpm == CpmHost
=============================================================================
