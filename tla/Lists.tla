-------------------------------- MODULE Lists --------------------------------
(***************************************************************************)
(* What the program does with lists in many places: it keeps what passes a *)
(* test, collects into a dict one element per key, and adds up.  SelectSeq *)
(* has no definition that the proof system knows, so Keep takes its place. *)
(***************************************************************************)
EXTENDS Naturals, SequencesExt

IsSeq(s) == s \in Seq(ToSet(s))

KeepIn(s, T) ==
  FlattenSeq([i \in DOMAIN s |-> IF s[i] \in T THEN <<s[i]>> ELSE <<>>])

\* A list comprehension with a condition.
Keep(s, Test(_)) == KeepIn(s, {x \in ToSet(s) : Test(x)})

\* best[key] = f, if there is nothing at the key or f beats it.  A dict keeps
\* the order in which its keys were first inserted.
Put(best, f, key, beats) ==
  LET hits == {i \in DOMAIN best : key[best[i]] = key[f]} IN
  IF hits = {} THEN Append(best, f)
  ELSE LET i == CHOOSE i \in hits : TRUE IN
       IF <<f, best[i]>> \in beats THEN [best EXCEPT ![i] = f] ELSE best

BestOf(s, key, beats) ==
  FoldLeft(LAMBDA best, f : Put(best, f, key, beats), <<>>, s)

\* list(best.values()) after the loop.
KeepBest(s, Key(_), Beats(_, _)) ==
  BestOf(s, [x \in ToSet(s) |-> Key(x)],
         {p \in ToSet(s) \X ToSet(s) : Beats(p[1], p[2])})

\* The same with setdefault: nothing beats what is there.
KeepFirst(s, Key(_)) == KeepBest(s, Key, LAMBDA x, y : FALSE)

Total(weights) == FoldLeft(LAMBDA n, w : n + w, 0, weights)
=============================================================================
