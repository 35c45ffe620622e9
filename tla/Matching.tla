------------------------------- MODULE Matching -------------------------------
(***************************************************************************)
(* How an exchange picks the queues a message goes to: the server's rules, *)
(* which in_process/matching.rs reproduces.                                *)
(*                                                                         *)
(* A name, a routing key and a topic pattern are each the sequence of      *)
(* their dot-separated words.  A table is a function from header names to  *)
(* values, and a value a record of its wire type and what it holds.        *)
(***************************************************************************)
EXTENDS Naturals, Sequences

CONSTANT XNames    \* the names, of those in use, that begin with "x-"

(* A topic pattern against a routing key: "*" is exactly one word, "#" any *)
(* number of them, none included.                                          *)
WordsMatch[pattern, key \in Seq(STRING)] ==
    CASE pattern = <<>> -> key = <<>>
      [] pattern # <<>> /\ Head(pattern) = "#" ->
           \E skipped \in 0..Len(key) :
               WordsMatch[Tail(pattern), SubSeq(key, skipped + 1, Len(key))]
      [] OTHER -> /\ key # <<>>
                  /\ Head(pattern) \in {"*", Head(key)}
                  /\ WordsMatch[Tail(pattern), Tail(key)]

TopicMatches(pattern, key) == WordsMatch[pattern, key]

(* The reference: the key can be cut into one part per pattern word, each  *)
(* part being what that word stands for.                                   *)
CutsToMatch(pattern, key) ==
    \E cut \in [0..Len(pattern) -> 0..Len(key)] :
        /\ cut[0] = 0 /\ cut[Len(pattern)] = Len(key)
        /\ \A i \in 1..Len(pattern) :
              \/ pattern[i] = "#" /\ cut[i] >= cut[i - 1]
              \/ /\ cut[i] = cut[i - 1] + 1
                 /\ pattern[i] \in {"*", key[cut[i]]}

(* The value of a table entry, and the byte string a publish writes.       *)
Value(type, held)  == [type |-> type, held |-> held]
LongString(held)   == Value("LongString", held)
Void               == Value("Void", [text |-> ""])
Text(text)         == [text |-> text]
TextTypes          == {"LongString", "ShortString"}

SameValue(expected, present) ==
    IF {expected.type, present.type} \subseteq TextTypes
    THEN expected.held = present.held
    ELSE expected = present

(* A binding's arguments against a message's header table.                 *)
HeadersMatch(arguments, table) ==
    LET mode    == IF /\ "x-match" \in DOMAIN arguments
                      /\ arguments["x-match"].type \in TextTypes
                   THEN arguments["x-match"].held ELSE Text("all")
        withX   == mode \in {Text("all-with-x"), Text("any-with-x")}
        entries == {name \in DOMAIN arguments \ {"x-match"} : withX \/ name \notin XNames}
        Matches(name) == /\ name \in DOMAIN table
                         /\ \/ arguments[name].type = "Void"
                            \/ SameValue(arguments[name], table[name])
    IN  IF mode \in {Text("any"), Text("any-with-x")}
        THEN \E name \in entries : Matches(name)
        ELSE \A name \in entries : Matches(name)
===============================================================================
