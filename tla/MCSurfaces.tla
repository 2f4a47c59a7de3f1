------------------------------ MODULE MCSurfaces ------------------------------
(***************************************************************************)
(* Surfaces and Holdings with small sets of values.                        *)
(***************************************************************************)
EXTENDS Holdings, TLC

CONSTANTS o1, d1, d2, g1, a1, a2

\* Two alike: texts, identities, requests, processes or actions.  Every part only
\* compares them.
Pair == {a1, a2}
Alike == Permutations(Pair)

\* Two of the names share their file.
MCNames == {"a.b", "a-b", "c"}
MCFileOf == [n \in MCNames |-> IF n = "c" THEN "c" ELSE "a-b"]

Plain == [mode |-> None, org |-> None, bind |-> None, kernel |-> FALSE, reset |-> FALSE]
MCChoices == {Plain, [Plain EXCEPT !.reset = TRUE], [Plain EXCEPT !.bind = "lan"],
              [Plain EXCEPT !.org = "o2"], [Plain EXCEPT !.mode = "bogus"],
              [Plain EXCEPT !.mode = "standalone"]}
MCSentences == {{}, {"execute"}}

\* One memory is full, the other nearly so, and their texts differ.
Holding(keys, t) == [i \in DOMAIN keys |-> [key |-> keys[i], text |-> t]]
MCBegun == {[a \in {"me", "other"} |->
                IF a = "me" THEN Holding(<<"soul", "task">>, t)
                ELSE Holding(<<"soul", "plan", "note">>, CHOOSE u \in Pair : u # t)] : t \in Pair}

\* Commands, ticks (of the gates: what the kernel changes), deaths and lines of a log.
MCOps == [capability |-> 4, connect |-> 4, channel |-> 3, account |-> 3, install |-> 3,
          session |-> 1, shadow |-> 2, gates |-> 2, parity |-> 2, memory |-> 2, setup |-> 2,
          provision |-> 2]
MCTime == [channel |-> 1, gates |-> 1, connect |-> 1, memory |-> 1, install |-> 1]
MCCrashes == [channel |-> 1, capability |-> 1, shadow |-> 1, account |-> 1, loops |-> 1,
              session |-> 1, gates |-> 1, parity |-> 1, connect |-> 1, memory |-> 1,
              install |-> 1, setup |-> 1, provision |-> 1]
MCRuns == [shadow |-> 2, loops |-> 1, session |-> 2, gates |-> 14]
===============================================================================
