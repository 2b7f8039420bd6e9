---------------------------- MODULE LedgerRefines ----------------------------
(* The shadow ledger with one writing thread implements LedgerMap.  A history  *)
(* variable carries the abstract state along: the map, and for every call which*)
(* records its key had since the call began.                                   *)
EXTENDS ShadowLedger

VARIABLE abs

OnlyWriter(t) == \A u \in Threads \ {t} : used.by[u] \cap {"insert", "erase"} = {}
SingleWriter == \E t \in Threads : OnlyWriter(t)

\* An entry is in the map while it is published: its sequence is even.
Published(k) == {i \in Cells : entry[i].key = k /\ ~Odd(entry[i].version)}
Map == [k \in Keys |-> LET at == Published(k) IN
            IF at = {} THEN NoRecord ELSE info[CHOOSE i \in at : TRUE]["body"]]

\* A call is over for its caller when only the statistics are left to do.
Pending(t) == me[t].pc \notin {"idle", "count"}
CallOf(t) == [pending |-> Pending(t), op |-> me[t].op, key |-> me[t].key, rec |-> me[t].rec,
              ok |-> me[t].ok \/ me[t].pc = "count", seen |-> {}]

HistoryInit == Init /\ abs = [map |-> Map, call |-> [t \in Threads |-> CallOf(t)]]
Remember ==
    abs' = IF ~SingleWriter THEN abs
           ELSE LET m == Map' IN
                [map |-> m,
                 call |-> [t \in Threads |->
                    [CallOf(t)' EXCEPT !.seen = IF Pending(t)'
                                                THEN abs.call[t].seen \cup {m[me'[t].key]}
                                                ELSE {}]]]
HistoryNext == Next /\ Remember
HistorySpec == HistoryInit /\ [][HistoryNext]_<<vars, abs>>

LM == INSTANCE LedgerMap WITH map <- abs.map, call <- abs.call

\* While one thread writes, the ledger is a map to whoever uses it: what Insert
\* accepted is there until it is erased, updated or, once freed, evicted; a
\* refused Insert leaves no older record of the address; Erase returns what it
\* took out; Find answers, from another thread too, with a whole record its key
\* had during the call, and with "unknown" only if there was a moment without.
Implements == LM!Spec
==============================================================================
