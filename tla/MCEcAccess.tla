----------------------------- MODULE MCEcAccess -----------------------------
(***************************************************************************)
(* TLC instance of EcAccess: three bytes of RAM, fields that start at a    *)
(* byte boundary, end inside one, lie past the end or are empty, and       *)
(* arguments shorter and longer than their field.  The history variable    *)
(* held collects what each byte held since a thread's call began.          *)
(***************************************************************************)
EXTENDS EcAccess, TLC

VARIABLE held

Field(m, a, n, d) == [method |-> m, first |-> a, bits |-> n, data |-> d]
MCCalls ==
  {Field("RE1B", 1, 8, <<>>), Field("WE1B", 0, 8, <<1>>),
   Field("RECB", 1, 16, <<>>), Field("RECB", 0, 0, <<>>), Field("RECB", 2, 9, <<>>),
   Field("WECB", 0, 12, <<1>>), Field("WECB", 1, 16, <<1, 1, 0>>)}

Symmetry == Permutations(Threads)

MCInit == Init /\ held = [t \in Threads |-> [a \in Address |-> {}]]

Seen(t) == [a \in Address |-> held[t][a] \cup {ram[a], ram'[a]}]

Observe ==
  held' = [t \in Threads |->
             IF pc[t] = "idle" \/ pc'[t] = "idle" THEN [a \in Address |-> {}] ELSE Seen(t)]

MCNext == Next /\ Observe
MCSpec == MCInit /\ [][MCNext]_<<vars, held>>
MCFairSpec == MCSpec /\ \A t \in Threads : WF_vars(Step(t))

\* A call that returns has one byte for every byte of its field, and each is what the
\* controller held there at some moment of the call: bytes are never mixed up between
\* addresses, calls or threads, though a field may be torn between its bytes.
BytesAreReal ==
  [][\A t \in Threads :
       pc[t] # "idle" /\ pc'[t] = "idle" /\ reply'[t].status = "ok" =>
         LET got == reply'[t].bytes IN
         /\ DOMAIN got = 0..(Length(t) - 1)
         /\ \A i \in DOMAIN got : got[i] \in Seen(t)[call[t].first + i]]_<<vars, held>>
=============================================================================
