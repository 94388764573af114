-------------------------- MODULE PermissionPatterns --------------------------
(***************************************************************************)
(* Which permissions the pattern of an entry takes in, and how specific it *)
(* is (DefaultPermissionMatcher).  A permission is an action and the text  *)
(* of the path it is for, as it was written: what is between its slashes,  *)
(* "" before a leading one, behind a trailing one and between two.  A      *)
(* pattern has dotted tokens for the action, none for all, and for the     *)
(* resource everything, the end of a name ("*.pdf"), the tokens of a path, *)
(* or one name without slashes.  Quoting is left out.                      *)
(***************************************************************************)
EXTENDS Integers, Sequences, FiniteSets

CONSTANT Endings      \* of what is behind the last slash: the ends that "*.pdf" may ask for

One == "*"
Many == "**"

\* Where a token may begin that something in later comes behind.
Begins(token, tokens, later) ==
    IF token = Many THEN {t \in 1..(Len(tokens) + 1) : \E k \in later : t <= k}
    ELSE {t \in 1..Len(tokens) : token \in {One, tokens[t]} /\ t + 1 \in later}

\* matchTokens: from each token of the pattern on, where what is left of it takes up all
\* that is left.
MatchTokens(pattern, tokens) ==
    LET from[p \in 1..(Len(pattern) + 1)] ==
            IF p > Len(pattern) THEN {Len(tokens) + 1} ELSE Begins(pattern[p], tokens, from[p + 1])
    IN 1 \in from[1]

ActionMatches(pattern, action) == pattern = <<>> \/ MatchTokens(pattern, <<action>>)

\* splitPath: without one leading slash and all trailing ones.  There is a name in text.
Split(text) ==
    LET named == {i \in DOMAIN text : text[i] # ""}
    IN SubSeq(text, IF text[1] = "" THEN 2 ELSE 1, CHOOSE i \in named : \A j \in named : j <= i)

\* resourceMatches
ResourceMatches(pattern, text) ==
    \/ text = <<One>>
    \/ CASE pattern.kind = "all" -> TRUE
         [] pattern.kind = "end" -> pattern.end \in Endings[text[Len(text)]]
         [] pattern.kind = "path" -> MatchTokens(pattern.path, Split(text))
         [] pattern.kind = "name" -> text = <<pattern.name>>

\* DefaultPermissionMatcher::matches
Matches(pattern, perm) ==
    ActionMatches(pattern.action, perm[1]) /\ ResourceMatches(pattern.resource, perm[2])

\* DefaultPermissionMatcher::specificity: it counts the tokens of the action, and of the
\* resource only whether there is one.
Specificity(pattern) ==
    (IF pattern.resource.kind = "all" THEN 0 ELSE 20)
    + Cardinality({i \in DOMAIN pattern.action : pattern.action[i] = One})
    + 10 * Cardinality({i \in DOMAIN pattern.action : pattern.action[i] \notin {One, Many}})

IsTokens(s) == s \in Seq({s[i] : i \in DOMAIN s})

IsText(s) == IsTokens(s) /\ \E i \in DOMAIN s : s[i] # ""

IsPattern(pattern) ==
    /\ IsTokens(pattern.action)
    /\ pattern.resource.kind \in {"all", "end", "path", "name"}
    /\ pattern.resource.kind = "path" => IsTokens(pattern.resource.path)

-------------------------------------------------------------------------------
(* What a pattern means: its tokens, one behind the other, take up those    *)
(* of the text, "**" any number of them and the others one each.           *)

Fits(pattern, tokens) ==
    \E upTo \in [0..Len(pattern) -> 0..Len(tokens)] :
        /\ upTo[0] = 0 /\ upTo[Len(pattern)] = Len(tokens)
        /\ \A i \in 1..Len(pattern) :
              IF pattern[i] = Many THEN upTo[i] >= upTo[i - 1]
              ELSE upTo[i] = upTo[i - 1] + 1 /\ pattern[i] \in {One, tokens[upTo[i]]}

TakesIn(pattern, perm) ==
    /\ pattern.action = <<>> \/ Fits(pattern.action, <<perm[1]>>)
    /\ \/ pattern.resource.kind = "all" \/ perm[2] = <<One>>
       \/ pattern.resource.kind = "end" /\ pattern.resource.end \in Endings[perm[2][Len(perm[2])]]
       \/ pattern.resource.kind = "path" /\ Fits(pattern.resource.path, Split(perm[2]))
       \/ pattern.resource.kind = "name" /\ perm[2] = <<pattern.resource.name>>
===============================================================================
