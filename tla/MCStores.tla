------------------------------- MODULE MCStores -------------------------------
(***************************************************************************)
(* What is kept in files of text: the credentials of a manager, the users  *)
(* of a store, the values of a registry on a volume, and those of a        *)
(* registry in one document.  They share no file and no state, so that one *)
(* of them moves in a behaviour and the others stay as they began.         *)
(***************************************************************************)
EXTENDS CredentialStore, UserStore, JsonRegistry, ValueRegistry, TLC

CONSTANTS p1, p2, s1, s2, x, y, one,
          root, dir, alias, below, Top, Mid, Low

VARIABLE part

Interchangeable == Permutations(Managers) \cup Permutations(Data) \cup Permutations({s1, s2})

-------------------------------------------------------------------------------
(* Two stores on one file, for two users of whom one has a dot in its name. *)

Names == {"a", "a.b"}

Key(id, k, p, e) == [id |-> id, kind |-> k, secret |-> p, enabled |-> TRUE, expires |-> e]
Rec(on, keys) == [enabled |-> on, roles |-> {"operator"}, keys |-> keys]

\* A user with two keys, one of which expires; a disabled one; no file; a file of no use.
Found == {Missing, Broken,
           [u \in Names |-> IF u = "a" THEN Rec(TRUE, <<Key(Main, "plain", "p", FALSE), Key("k", "hash", "q", TRUE)>>)
                            ELSE Rec(TRUE, <<Key(Main, "plain", "q", FALSE)>>)],
           [u \in Names |-> IF u = "a" THEN Rec(FALSE, <<Key(Main, "hash", "p", FALSE), Key(Main, "plain", "q", FALSE)>>)
                            ELSE None]}

ChangeOf(o, u) == [op |-> o, user |-> u]
Line(c, u, o, a, l, g, r) ==
    [cmd |-> c, user |-> u, option |-> o, argument |-> a, line |-> l, alg |-> g, roles |-> r]
AddKey(i, t, o) == [cmd |-> "keyAdd", user |-> "a", id |-> i, type |-> t, option |-> o, alg |-> "plain"]

Asked ==
    {Line("add", u, "p", NoSecret, NoSecret, "plain", None) : u \in Names}
    \cup {Line("add", "a", NoSecret, NoSecret, Empty, g, {}) : g \in {"sha256", "unsupported"}}
    \cup {Line("add", "a", "p", "q", NoSecret, "plain", {})}
    \cup {Line("update", "a", NoSecret, NoSecret, l, "plain", {}) : l \in {"q", Empty, NoSecret}}
    \cup {Line("update", "a", NoSecret, "p", "q", "sha256", None)}
    \cup {AddKey(i, "hash", "p") : i \in {Main, "k"}}
    \cup {AddKey("k", "other", o) : o \in {"p", NoSecret}}
    \cup {[cmd |-> "change", change |-> ChangeOf(o, "a")] : o \in {"removeUser", "enable", "disable"}}
    \cup {[cmd |-> "change", change |-> [op |-> "setRoles", user |-> u, roles |-> {}]] : u \in Names}
    \cup {[cmd |-> "change", change |-> [op |-> "addRole", user |-> "a", role |-> "operator"]],
          [cmd |-> "change", change |-> [op |-> "removeRole", user |-> "a", role |-> "operator"]]}
    \cup {[cmd |-> "call", change |-> [op |-> o, user |-> "a", id |-> Main]] : o \in {"removeKey", "enableKey", "disableKey"}}
    \cup {[cmd |-> "call", change |-> [op |-> "updateKey", user |-> "a", key |-> Key("k", "hash", "q", FALSE)]],
          [cmd |-> "call", change |-> [op |-> "save"]], [cmd |-> "call", change |-> [op |-> "clear"]]}

NodeOf == [u \in Names |-> "a"]
Typed == {"p", "q", Empty}
RoleNames == {"operator"}
KeyNames == {Main, "k"}
TwoStores == {s1, s2}
Backings == {"file", "json", "volume", "rootless"}

\* Two calls, and a third of the user whose node the second may have overwritten.
MayAsk(c) ==
    calls = 2 => /\ kind = "json" /\ faults = 0
                 /\ c.cmd = "change" /\ c.change.op = "setRoles" /\ c.change.user = "a.b"

AccountsNext ==
    \/ \E s \in Stores, c \in Commands : MayAsk(c) /\ Ask(s, c)
    \/ \E s \in Stores : Continue(s)
    \/ \E s \in Stores : Open(s)
    \/ \E s \in Stores : End(s)
    \/ Expire

-------------------------------------------------------------------------------
(* Two processes on three files, one of which has two names.               *)

Path(d, f, w) == [dir |-> d, frag |-> f, whole |-> w]

Filled == [f \in {<<>>, <<y>>} |-> IF f = <<y>> THEN one ELSE Obj]

Letters == {x, y}
OneValue == {one}
TwoProcesses == {p1, p2}
ThreeNames == [p \in TwoProcesses |->
                  IF p = p1 THEN {Path(root, <<x>>, dir), Path(dir, <<y>>, below), Path(alias, <<y>>, below)}
                  ELSE {Path(root, <<x, y>>, below)}]
ThreeFiles == [c \in {root, dir, alias, below} |->
                  IF c = root THEN Top ELSE IF c = below THEN Low ELSE Mid]
\* A file with a bare value, one with an object, and one that does not parse
FilesAtFirst == {[f \in {Top, Mid, Low} |-> CASE f = Top -> [g \in {<<>>} |-> one]
                                              [] f = Mid -> Filled
                                              [] f = Low -> Nothing]}

(* A document of two keys and two levels, with a file and without one.      *)

FourPlaces == {<<x>>, <<y>>, <<x, y>>, <<x, x>>}
FileAtFirst == {Nothing, Filled}

-------------------------------------------------------------------------------

StoresInit ==
    /\ part \in {"credentials", "users", "values", "document"}
    /\ CredentialInit
    /\ Init /\ (part # "users" => kind = "file" /\ disk = Missing)
    /\ ValuesInit
    /\ DocumentInit /\ (part # "document" => onDisk = Nothing)

StoresNext ==
    \/ part = "credentials" /\ CredentialNext /\ UNCHANGED <<part, vars, valueVars, documentVars>>
    \/ part = "users" /\ AccountsNext /\ UNCHANGED <<part, credentialVars, valueVars, documentVars>>
    \/ part = "values" /\ ValuesNext /\ UNCHANGED <<part, credentialVars, vars, documentVars>>
    \/ part = "document" /\ DocumentNext /\ UNCHANGED <<part, credentialVars, vars, valueVars>>

allVars == <<part, credentialVars, vars, valueVars, documentVars>>

StoresSpec == StoresInit /\ [][StoresNext]_allVars

\* What a call was is left out.
StoresView == <<part, credentialVars, kind, disk, store, synced, late, calls, faults,
                files, cache, dirty, documentVars>>
===============================================================================
