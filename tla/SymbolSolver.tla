---------------------------- MODULE SymbolSolver ----------------------------
(***************************************************************************)
(* The inline part of Lilu's KernelPatcher: solveSymbol with a range,      *)
(* solveMultiple over an array of requests, and routeVirtual.  found[i] is *)
(* what the exported solveSymbol answers for request i: a running address, *)
(* or 0 with the error code set.                                           *)
(***************************************************************************)
EXTENDS Integers

CONSTANT AddressSpace      \* the number of addresses

ASSUME AddressSpaceAssumption == AddressSpace \in Nat \ {0}

Address == 0..(AddressSpace - 1)

\* The sum of two addresses, which wraps.
Plus(a, b) == IF a + b < AddressSpace THEN a + b ELSE a + b - AddressSpace

\* Mutant: the end of the range counts as inside.
InRangeClosed(addr, start, size) == addr >= start /\ addr <= Plus(start, size)

\* The range check of solveSymbol.
InRange(addr, start, size) == addr >= start /\ addr < Plus(start, size)

\* The requests that solveSymbol answers with null: not found, or out of range.
Failed(found, start, size) ==
  {i \in DOMAIN found : found[i] = 0 \/ ~InRange(found[i], start, size)}

\* The failures that end solveMultiple: without force any, with it one that panics.
Stops(found, start, size, force, crash) ==
  {i \in Failed(found, start, size) : ~force \/ (crash /\ found[i] # 0)}

\* The requests solveMultiple comes to: those up to the first that ends it.
Reached(found, start, size, force, crash) ==
  {i \in DOMAIN found : \A j \in Stops(found, start, size, force, crash) : i <= j}

\* What the requests' address variables hold afterwards: a failure leaves its own alone.
Stored(old, found, start, size, force, crash) ==
  [i \in DOMAIN old |->
     IF i \in Reached(found, start, size, force, crash) \ Failed(found, start, size)
     THEN found[i] ELSE old[i]]

\* Mutant: only the first request decides.
ReturnedFirst(found, start, size, force, crash) ==
  1 \notin Stops(found, start, size, force, crash)

\* solveMultiple returns true when nothing ends it before its last request.
Returned(found, start, size, force, crash) == Stops(found, start, size, force, crash) = {}

\* With crash an address out of range is a panic.
Crashes(found, start, size, force, crash) ==
  /\ crash
  /\ \E i \in Reached(found, start, size, force, crash) \cap Failed(found, start, size) :
       found[i] # 0

\* Mutant: the code of a symbol that is not found stays.
CodeAfterStays(code, found, start, size, force, crash) ==
  IF \E i \in Reached(found, start, size, force, crash) : found[i] = 0
  THEN "NoSymbolFound" ELSE "NoError"

\* Mutant: the return comes before the code is cleared.
CodeAfterReturn(code, found, start, size, force, crash) ==
  IF \E i \in Reached(found, start, size, force, crash) \cap Failed(found, start, size) :
       found[i] # 0 /\ (crash \/ ~force)
  THEN "InvalidSymbolFound" ELSE "NoError"

\* The error code afterwards: solveMultiple clears every failure it comes to, and with it
\* whatever code there was before; a panic leaves the code of the address out of range.
CodeAfter(code, found, start, size, force, crash) ==
  IF Crashes(found, start, size, force, crash)
  THEN "InvalidSymbolFound"
  ELSE IF Reached(found, start, size, force, crash) \cap Failed(found, start, size) = {}
       THEN code ELSE "NoError"

-----------------------------------------------------------------------------
(* solveMultiple as it runs, one request after the other.  out is "loop"   *)
(* while it goes on, then what it returns, or "panic".                     *)

Entered(old, code) == [index |-> 1, addr |-> old, code |-> code, out |-> "loop"]

Iteration(s, found, start, size, force, crash) ==
  LET i == s.index
  IN  CASE i \notin DOMAIN found -> [s EXCEPT !.out = "true"]
        [] i \in DOMAIN found \ Failed(found, start, size) ->
             [s EXCEPT !.addr = [s.addr EXCEPT ![i] = found[i]], !.index = i + 1]
        [] i \in Failed(found, start, size) /\ crash /\ found[i] # 0 ->
             [s EXCEPT !.code = "InvalidSymbolFound", !.out = "panic"]
        [] OTHER ->
             [s EXCEPT !.code = "NoError",
                       !.index = IF force THEN i + 1 ELSE i,
                       !.out = IF force THEN "loop" ELSE "false"]
=============================================================================
