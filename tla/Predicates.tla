----------------------------- MODULE Predicates -----------------------------
(***************************************************************************)
(* doneproof/predicates.py: a path is resolved in a provider's normalised  *)
(* state and an operator is applied to what is found there.                *)
(*                                                                         *)
(* A Python value is a record with one field, its type: two values of      *)
(* different types are different, as in Python.  A string is one of Words, *)
(* none of which is part of, or shares its letters with, another one.      *)
(***************************************************************************)
EXTENDS Integers, Sequences, SequencesExt, FiniteSets

CONSTANT Words   \* the strings of an instance, in the order of <=; "" is first

None    == [none |-> TRUE]
Str(s)  == [str |-> s]
List(q) == [list |-> q]
Map(f)  == [map |-> f]
Missing == [missing |-> TRUE]   \* _MISSING, no value of Python's JSON

Is(type, v) == DOMAIN v = {type}

\* One part of a path; an index is written as a number.
Child(v, part) ==
  CASE Is("map", v) /\ part \in DOMAIN v.map -> v.map[part]
    [] Is("list", v) /\ part \in {ToString(i - 1) : i \in DOMAIN v.list} ->
         v.list[CHOOSE i \in DOMAIN v.list : ToString(i - 1) = part]
    [] OTHER -> Missing

\* The loop over the parts: what is found after each number of them.
ResolvePath(v, path) ==
  LET found[n \in 0..Len(path)] == IF n = 0 THEN v ELSE Child(found[n - 1], path[n])
  IN  found[Len(path)]

\* The places where two lists differ: Python compares at the first, or by length.
Differ(q, r) == {i \in DOMAIN q \cap DOMAIN r : q[i] # r[i]}

\* Two strings have an order, and so have two lists that first differ in strings,
\* or not at all; otherwise Python raises a TypeError.  (It goes on into lists
\* within lists, which the model does not.)
Strings(v, w) == Is("str", v) /\ Is("str", w)
Comparable(v, w) ==
  \/ Strings(v, w)
  \/ /\ Is("list", v) /\ Is("list", w)
     /\ LET D == Differ(v.list, w.list)
        IN  D # {} => Strings(v.list[Min(D)], w.list[Min(D)])

Rank(v) == CHOOSE i \in DOMAIN Words : Words[i] = v.str
AtMost(v, w) ==
  IF Is("str", v) THEN Rank(v) <= Rank(w)
  ELSE LET D == Differ(v.list, w.list)
       IN  IF D = {} THEN Len(v.list) <= Len(w.list)
           ELSE Rank(v.list[Min(D)]) <= Rank(w.list[Min(D)])

\* "expected in actual"; a TypeError counts as no.
IsIn(x, v) ==
  \/ Is("str", v) /\ Is("str", x) /\ x.str \in {v.str, Words[1]}
  \/ Is("list", v) /\ x \in ToSet(v.list)
  \/ Is("map", v) /\ Is("str", x) /\ x.str \in DOMAIN v.map

\* "all(x in actual for x in expected)": a string is iterated by its letters, a
\* map by its keys; nothing else can be iterated.
ContainsAll(v, x) ==
  \/ Is("list", x) /\ \A y \in ToSet(x.list) : IsIn(y, v)
  \/ Is("str", x) /\ (x.str = Words[1] \/ v = x)
  \/ Is("map", x) /\ \A k \in DOMAIN x.map : IsIn(Str(k), v)

Status(ok) == IF ok THEN "PASS" ELSE "FAIL"

\* The branches of evaluate for an actual value, which may be null.
Apply(actual, p) ==
  CASE p.op = "exists"       -> Status(actual # None)
    [] p.op = "not_exists"   -> Status(actual = None)
    [] p.op = "eq"           -> Status(actual = p.expected)
    [] p.op = "neq"          -> Status(actual # p.expected)
    [] p.op = "contains"     -> Status(IsIn(p.expected, actual))
    [] p.op = "contains_all" -> Status(ContainsAll(actual, p.expected))
    [] p.op \in {"gte", "lte"} ->
         IF ~Comparable(actual, p.expected) THEN "UNKNOWN"
         ELSE Status(IF p.op = "gte" THEN AtMost(p.expected, actual)
                                     ELSE AtMost(actual, p.expected))

\* Mutant of Evaluate: what is missing is null, and so differs from a value.
Evaluate_MissingIsNone(state, p) ==
  LET actual == ResolvePath(state, p.path)
  IN  Apply(IF actual = Missing THEN None ELSE actual, p)

\* evaluate: what is missing does not exist, and fails every other operator.
Evaluate(state, p) ==
  LET actual == ResolvePath(state, p.path)
  IN  IF actual = Missing THEN Status(p.op = "not_exists") ELSE Apply(actual, p)

Operators == {"exists", "not_exists", "eq", "neq", "contains", "contains_all", "gte", "lte"}
=============================================================================
