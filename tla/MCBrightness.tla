---------------------------- MODULE MCBrightness ----------------------------
(***************************************************************************)
(* TLC instance of Brightness: one device id of every family, every BKLT,  *)
(* and the periods real firmware uses.  The history variable found keeps   *)
(* what the firmware left.                                                 *)
(***************************************************************************)
EXTENDS Brightness

VARIABLE found

MCWord == 65536
MCOnes == 65536
MCDevices == {\h0116, \h9B41, \h1616, \h9B3E}
MCSettings ==
  [BKLT : SUBSET Bits, LMAX : {0, 1, \h056C, \hFFFF, MCOnes}, FBTP : {0, 1, 3}]
MCFirmware ==
  {f \in [period : {0, 1, \h0710, \h0AD9}, duty : {0, 1, \h0500, \h0AD9},
          level : {0, 1, \h0700, \h0710}] :
     f.period # 0 => f.duty <= f.period /\ f.level <= f.period}

MCInit == Init /\ found = [period |-> period, lit |-> Lit]
MCNext == Next /\ UNCHANGED found
MCSpec == MCInit /\ [][MCNext]_<<vars, found>>

\* The panel keeps its relative brightness, rounded down to the new period: what is read
\* before the first write decides what the last write stores.
BrightnessKept ==
  pc \in {"label", "done"} /\ found.period # 0 /\ period # 0 =>
    /\ Lit * found.period <= found.lit * period
    /\ found.lit * period < (Lit + 1) * found.period
=============================================================================
