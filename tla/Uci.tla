-------------------------------- MODULE Uci --------------------------------
(***************************************************************************)
(* uci_c/src/main.c: calls that look up, add, change and delete sections   *)
(* and options of a configuration package.  Each call allocates a context, *)
(* loads the package, edits, saves, commits, unloads and frees, and may    *)
(* fail at each of these steps.                                            *)
(***************************************************************************)
EXTENDS Integers, Sequences, SequencesExt

CONSTANTS
    Names, Types, Options, Values,  \* of sections and options
    Anonymous,                      \* names libuci gives to the sections that are added
    NewValue,                       \* what add_new_section sets its options to
    MaxSections,                    \* bound of the model
    NULL

VARIABLES
    package,    \* the sections on disk: [name, type, opts], in order
    crashed,    \* a call dereferenced NULL
    last        \* the last call: its name, argument, failure, result, the value it
                \* gave, and what became of its context

vars == <<package, crashed, last>>

(* What a run is told. *)
Parameters == NewValue \in Values

(* The steps of a call that libuci may refuse. *)
Failures == {"none", "alloc", "load", "edit", "save", "commit"}

Section == [name : Names \cup Anonymous, type : Types, opts : [Options -> Values \cup {NULL}]]

NoOptions == [o \in Options |-> NULL]

Init == /\ package \in UNION {[1 .. n -> {s \in Section : s.name \in Names}] : n \in 0 .. 2}
        /\ \A i, j \in DOMAIN package : package[i].name = package[j].name => i = j
        /\ crashed = FALSE
        /\ last = [call |-> "none", arg |-> NULL, fails |-> "none", result |-> 0,
                   value |-> NULL, context |-> "freed"]

--------------------------------------------------------------------------
(* The sections of a name, of which there is one at most: uci_lookup_section. *)
Find(name) == {i \in DOMAIN package : package[i].name = name}

(* The edit reaches the file when it is committed, whatever uci_save said. *)
Commit(fails, edited) == package' = IF fails = "commit" THEN package ELSE edited

Returns(call, arg, fails, result, value, context) ==
    /\ last' = [call |-> call, arg |-> arg, fails |-> fails, result |-> result,
                value |-> value, context |-> context]
    /\ crashed' = (context = "crashed")

(* A call that changes nothing.  On the path of some errors the context is "used", *)
(* which is to say freed and then asked for the text of its error, on others it is  *)
(* "leaked".                                                                        *)
Fails(call, arg, fails, result, context) ==
    Returns(call, arg, fails, result, NULL, context) /\ UNCHANGED package

(* The list without the first of the sections m. *)
DeletedFirst(m) == RemoveAt(package, Min(m))

(* The sections a scan for a type and an option's value looks at; one of that type *)
(* without the option is passed to strcmp as NULL.                                  *)
delect_one_anonsection(type, agent, v, fails) ==
    LET match == {i \in DOMAIN package :
                    package[i].type = type /\ package[i].opts[agent] = v}
        null  == {i \in DOMAIN package :
                    package[i].type = type /\ package[i].opts[agent] = NULL}
        met   == match \cup null
    IN /\ fails # "alloc"
       /\ IF fails = "load" THEN Fails("delect", v, fails, -1, "freed")
          ELSE IF met = {} THEN Fails("delect", v, fails, 0, "freed")
          ELSE IF Min(met) \in null THEN Fails("delect", v, fails, 0, "crashed")
          ELSE IF fails = "edit" THEN Fails("delect", v, fails, -2, "freed")
          ELSE /\ Returns("delect", v, fails, 0, NULL, "freed")
               /\ Commit(fails, DeletedFirst(match))

(* A package that is not loaded keeps its context; uci_add_section succeeds. *)
add_new_section(type, fails) ==
    /\ fails \in {"none", "load", "commit"}
    /\ IF fails = "load" THEN Fails("add", type, fails, -1, "leaked")
       ELSE /\ Len(package) < MaxSections
            /\ \E n \in Anonymous :
                 /\ Find(n) = {}
                 /\ LET s == [name |-> n, type |-> type, opts |-> [o \in Options |-> NewValue]]
                    IN Commit(fails, Append(package, s))
            /\ Returns("add", type, fails, 0, NULL, "freed")

delete_section(name, fails) ==
    IF fails = "alloc" THEN Fails("delete", name, fails, -1, "freed")
    ELSE IF fails \in {"load", "edit"} \/ Find(name) = {}
    THEN Fails("delete", name, fails, -1, "used")
    ELSE /\ Returns("delete", name, fails, 0, NULL, "freed")
         /\ Commit(fails, DeletedFirst(Find(name)))

(* The sections with an option of the named one changed. *)
WithOption(name, option, v) ==
    [i \in DOMAIN package |->
        IF i \in Find(name) THEN [package[i] EXCEPT !.opts[option] = v] ELSE package[i]]

(* The result of uci_delete is not looked at. *)
uci_delete_option(name, option, fails) ==
    IF fails = "alloc" THEN Fails("unset", name, fails, -1, "freed")
    ELSE IF fails = "load" THEN Fails("unset", name, fails, -1, "used")
    ELSE IF fails = "edit" THEN Fails("unset", name, fails, 0, "freed")
    ELSE /\ Returns("unset", name, fails, 0, NULL, "freed")
         /\ Commit(fails, WithOption(name, option, NULL))

(* Loading fails: the context is not freed.  uci_set fails: it is freed, then used. *)
uci_set_option_string(name, option, v, fails) ==
    IF fails = "alloc" THEN Fails("set", name, fails, -1, "freed")
    ELSE IF fails = "load" THEN Fails("set", name, fails, -1, "leaked")
    ELSE IF Find(name) = {} THEN Fails("set", name, fails, -1, "freed")
    ELSE IF fails = "edit" THEN Fails("set", name, fails, -1, "used")
    ELSE /\ Returns("set", name, fails, 0, NULL, "freed")
         /\ Commit(fails, WithOption(name, option, v))

lfuci_get_option(name, option, fails) ==
    /\ fails \in {"none", "alloc", "load"}
    /\ UNCHANGED package
    /\ LET found == {i \in Find(name) : package[i].opts[option] # NULL}
       IN IF fails = "load" THEN Returns("get", name, fails, -1, NULL, "leaked")
          ELSE IF fails = "alloc" \/ found = {}
          THEN Returns("get", name, fails, -1, NULL, "freed")
          ELSE Returns("get", name, fails, 0, package[Min(found)].opts[option], "freed")

list_all_section(fails) ==
    /\ fails \in {"none", "load"}
    /\ Fails("list", NULL, fails, 0, IF fails = "load" THEN "leaked" ELSE "freed")

(* Mutant of FirstByType: the scan ends at the first section of the type. *)
FirstByTypeOnly(type, option) ==
    LET typed == {i \in DOMAIN package : package[i].type = type}
    IN {i \in typed : i = Min(typed) /\ package[i].opts[option] # NULL}

(* The sections at which the scan by type may end. *)
FirstByType(type, option) ==
    {i \in DOMAIN package : package[i].type = type /\ package[i].opts[option] # NULL}

lfuci_get_first_option_by_stype(type, option, fails) ==
    /\ fails \in {"none", "load"}
    /\ UNCHANGED package
    /\ LET found == FirstByType(type, option)
           arg == <<type, option>>
       IN IF fails = "load" THEN Returns("first", arg, fails, -1, NULL, "freed")
          ELSE IF \A i \in DOMAIN package : package[i].type # type
          THEN Returns("first", arg, fails, -2, NULL, "freed")
          ELSE IF found = {} THEN Returns("first", arg, fails, -3, NULL, "freed")
          ELSE Returns("first", arg, fails, 0, package[Min(found)].opts[option], "freed")

Next ==
    /\ ~ crashed
    /\ \E fails \in Failures :
        \/ \E type \in Types, agent \in Options, v \in Values :
              delect_one_anonsection(type, agent, v, fails)
        \/ \E type \in Types : add_new_section(type, fails)
        \/ \E name \in Names \cup Anonymous :
              \/ delete_section(name, fails)
              \/ \E option \in Options :
                    \/ uci_delete_option(name, option, fails)
                    \/ lfuci_get_option(name, option, fails)
                    \/ \E v \in Values : uci_set_option_string(name, option, v, fails)
        \/ list_all_section(fails)
        \/ \E type \in Types, option \in Options :
              lfuci_get_first_option_by_stype(type, option, fails)

Spec == Init /\ [][Next]_vars

--------------------------------------------------------------------------
(* A call that reports a failure has left the configuration as it was, and one  *)
(* that succeeds touches one section: the others keep their place and options.  *)
TouchesOne ==
    [][/\ last'.result # 0 => package' = package
       /\ \E i \in 1 .. Len(package) + 1 :
            \/ package' = package
            \/ i \in DOMAIN package /\ package' = RemoveAt(package, i)
            \/ i = Len(package) + 1 /\ Len(package') = i /\ Front(package') = package
            \/ /\ Len(package') = Len(package)
               /\ \A j \in DOMAIN package : j # i => package'[j] = package[j]]_vars

(* lfuci_get_first_option_by_stype returns 0 with an option of a section of the *)
(* type exactly when there is one, -2 when no section has the type and -3 when  *)
(* none of them has the option ("@return int 0 ... -2 ... -3").                  *)
ReturnsAsDocumented ==
    [][last'.call = "first" /\ last'.fails = "none" =>
          LET typed  == {i \in DOMAIN package : package[i].type = last'.arg[1]}
              having == {i \in typed : package[i].opts[last'.arg[2]] # NULL}
          IN IF typed = {} THEN last'.result = -2
             ELSE IF having = {} THEN last'.result = -3
             ELSE /\ last'.result = 0
                  /\ \E i \in having : /\ \A j \in having : i <= j
                                       /\ last'.value = package[i].opts[last'.arg[2]]]_vars
=============================================================================
