--------------------------- MODULE Configuration ---------------------------
(***************************************************************************)
(* From a command line to a topology: src/src/main.rs, the port specs of   *)
(* src/src/daemon.rs and the file of src/src/config.rs.                    *)
(*                                                                         *)
(* A text is a sequence of words: the separators ":" and ",", and longer   *)
(* words, never two of those in a row.  Of a word only its value as a      *)
(* number matters, if it has one.  A file is a sequence of tables, as the  *)
(* TOML library reads them.                                                *)
(***************************************************************************)
EXTENDS PortMode, SequencesExt

CONSTANTS
  Numeral,       \* function: the value of the words that are numerals
  Addresses,     \* the texts that are socket addresses
  Texts,         \* what may be typed as an argument
  Tables,        \* what may be written as a [[port]] table
  Unreadable,    \* a file that is not there, or is not TOML
  Refused,       \* Err(_)
  MaxArgs, MaxTables

\* What is missing from a table is NoVlan, or an empty list.
Table ==
  [name : Seq(STRING), mode : STRING, vlan : Int \cup {NoVlan},
   native : Int \cup {NoVlan}, allowed : Seq(Int)]

U16 == 0 .. 65535
Vlans(t) == {v \in {t.vlan, t.native} \cup ToSet(t.allowed) : v \in U16}

\* Of the numbers in a table, those a VLAN id may have can be typed.
ASSUME ConfigurationAssumption ==
  /\ \A w \in DOMAIN Numeral : Numeral[w] \in Nat
  /\ {":", ",", "-", "trunk"} \cap DOMAIN Numeral = {}
  /\ Texts \subseteq Seq(STRING) /\ Tables \subseteq Table
  /\ \A t \in Tables : \A v \in Vlans(t) : \E w \in DOMAIN Numeral : Numeral[w] = v
  /\ <<"--dashboard">> \notin Addresses
  /\ MaxArgs \in Nat /\ MaxTables \in Nat

\* Err is not Ok.
ASSUME RefusedAssumption ==
  /\ Refused \notin [name : Seq(STRING), mode : PortMode]
  /\ Refused \notin [args : Seq(Texts), addr : Addresses \cup {<< >>}]

VARIABLES args, file, outcome

vars == <<args, file, outcome>>

Running == "running"    \* daemon::run is called
Error == "error"        \* exit code 1
Usage == "usage"        \* exit code 2
exits(how) == [at |-> how, specs |-> << >>, reloads |-> FALSE, dashboard |-> << >>]

----------------------------------------------------------------------------
\* Texts: split_once and split of the standard library, parse of an integer

splits(text) == Contains(text, ":")
colon(text) == SelectInSeq(text, LAMBDA w : w = ":")
before(text) == SubSeq(text, 1, colon(text) - 1)
after(text) == SubSeq(text, colon(text) + 1, Len(text))

\* The comma-separated fields of a text, of which there is at least one: what
\* is between a cut and the next.  Their order does not matter, nor that one is
\* repeated: PortMode::trunk collects them into a HashSet.
fields(text) ==
  LET cuts == {0, Len(text) + 1} \cup {i \in DOMAIN text : text[i] = ","}
      next(cut) == Min({c \in cuts : c > cut})
  IN  {SubSeq(text, cut + 1, next(cut) - 1) : cut \in cuts \ {Len(text) + 1}}

Optional(v, S) == v = NoVlan \/ v \in S
is_vlan(text) ==
  Len(text) = 1 /\ text[1] \in DOMAIN Numeral /\ Numeral[text[1]] \in U16
vlan_of(text) == Numeral[text[1]]

----------------------------------------------------------------------------
\* PortMode::access and PortMode::trunk

access(vlan) ==
  IF vlan \in Assignable THEN [kind |-> "access", vlan |-> vlan] ELSE Refused

\* Mutant: only a command line is checked for an empty trunk.
trunk_maybe_empty(native, allowed) ==
  IF Optional(native, Assignable) /\ allowed \subseteq Assignable
  THEN [kind |-> "trunk", native |-> native, allowed |-> allowed]
  ELSE Refused

trunk(native, allowed) ==
  IF /\ Optional(native, Assignable) /\ allowed \subseteq Assignable
     /\ native # NoVlan \/ allowed # {}
  THEN [kind |-> "trunk", native |-> native, allowed |-> allowed]
  ELSE Refused

----------------------------------------------------------------------------
\* The command line

\* Mutant: an empty field of the list is passed over.
parse_trunk_lenient(text) ==
  LET native == before(text)
      allowed == fields(after(text)) \ {<< >>}
  IN  IF /\ splits(text)
         /\ native = <<"-">> \/ is_vlan(native)
         /\ \A s \in allowed : is_vlan(s)
      THEN trunk(IF native = <<"-">> THEN NoVlan ELSE vlan_of(native),
                 {vlan_of(s) : s \in allowed})
      ELSE Refused

\* No list is an empty list; an empty field of a list is an error.
parse_trunk(text) ==
  LET native == before(text)
      allowed == IF after(text) = << >> THEN {} ELSE fields(after(text))
  IN  IF /\ splits(text)
         /\ native = <<"-">> \/ is_vlan(native)
         /\ \A s \in allowed : is_vlan(s)
      THEN trunk(IF native = <<"-">> THEN NoVlan ELSE vlan_of(native),
                 {vlan_of(s) : s \in allowed})
      ELSE Refused

parse_mode(text) ==
  IF IsPrefix(<<"trunk", ":">>, text) THEN parse_trunk(SubSeq(text, 3, Len(text)))
  ELSE IF is_vlan(text) THEN access(vlan_of(text)) ELSE Refused

parse_spec(text) ==
  IF splits(text) /\ parse_mode(after(text)) # Refused
  THEN [name |-> before(text), mode |-> parse_mode(after(text))]
  ELSE Refused

unique_names(specs) ==
  \A i, j \in DOMAIN specs : specs[i].name = specs[j].name => i = j

parse_port_specs(line) ==
  LET specs == [i \in DOMAIN line |-> parse_spec(line[i])]
  IN  IF (\A i \in DOMAIN line : specs[i] # Refused) /\ unique_names(specs)
      THEN specs ELSE Refused

----------------------------------------------------------------------------
\* The file

\* One [[port]] table: a field that the mode does not have is not looked at.
deserialize(t) ==
  IF t.mode = "access" /\ t.vlan \in U16
  THEN [name |-> t.name, mode |-> "access", vlan |-> t.vlan]
  ELSE IF /\ t.mode = "trunk" /\ Optional(t.native, U16)
          /\ ToSet(t.allowed) \subseteq U16
  THEN [name |-> t.name, mode |-> "trunk", native |-> t.native, allowed |-> t.allowed]
  ELSE Refused

construct(entry) ==
  IF entry.mode = "access" THEN access(entry.vlan)
  ELSE trunk(entry.native, ToSet(entry.allowed))

\* Mutant: names are not compared.
into_specs_any_name(entries) ==
  LET specs == [i \in DOMAIN entries |->
                  [name |-> entries[i].name, mode |-> construct(entries[i])]]
  IN  IF \A i \in DOMAIN specs : specs[i].mode # Refused THEN specs ELSE Refused

into_specs(entries) ==
  LET specs == [i \in DOMAIN entries |->
                  [name |-> entries[i].name, mode |-> construct(entries[i])]]
  IN  IF (\A i \in DOMAIN specs : specs[i].mode # Refused) /\ unique_names(specs)
      THEN specs ELSE Refused

\* Config::load, then into_specs.
load(contents) ==
  IF \/ contents = Unreadable
     \/ \E i \in DOMAIN contents : deserialize(contents[i]) = Refused
  THEN Refused
  ELSE into_specs([i \in DOMAIN contents |-> deserialize(contents[i])])

----------------------------------------------------------------------------
\* main

flag == <<"--dashboard">>
position(line) == SelectInSeq(line, LAMBDA a : a = flag)

\* Mutant: the flag is removed first, and shifts what follows.
take_dashboard_addr_shifted(line) ==
  LET i == position(line)
      rest == RemoveAt(line, i)
  IN  IF i = 0 THEN [args |-> line, addr |-> << >>]
      ELSE IF i + 1 > Len(line) \/ line[i + 1] \notin Addresses THEN Refused
      ELSE [args |-> RemoveAt(rest, i + 1), addr |-> line[i + 1]]

take_dashboard_addr(line) ==
  LET i == position(line)
  IN  IF i = 0 THEN [args |-> line, addr |-> << >>]
      ELSE IF i + 1 > Len(line) \/ line[i + 1] \notin Addresses THEN Refused
      ELSE [args |-> RemoveAt(RemoveAt(line, i + 1), i), addr |-> line[i + 1]]

runs(specs, reloads, addr) ==
  IF specs = Refused THEN exits(Error)
  ELSE [at |-> Running, specs |-> specs, reloads |-> reloads, dashboard |-> addr]

\* A file without ports is run, a command line without ports is not.
try_main(line) ==
  LET taken == take_dashboard_addr(line)
  IN  IF taken = Refused THEN exits(Error)
      ELSE IF taken.args # << >> /\ taken.args[1] = <<"--config">>
      THEN IF Len(taken.args) # 2 THEN exits(Usage)
           ELSE runs(load(file), TRUE, taken.addr)
      ELSE IF taken.args = << >> THEN exits(Usage)
      ELSE runs(parse_port_specs(taken.args), FALSE, taken.addr)

----------------------------------------------------------------------------
Typing == exits("typing")

Init == args = << >> /\ file \in {Unreadable, << >>} /\ outcome = Typing

type_argument(a) ==
  /\ outcome = Typing /\ Len(args) < MaxArgs
  /\ args' = Append(args, a) /\ UNCHANGED <<file, outcome>>

write_table(t) ==
  /\ outcome = Typing /\ file # Unreadable /\ Len(file) < MaxTables
  /\ file' = Append(file, t) /\ UNCHANGED <<args, outcome>>

main ==
  /\ outcome = Typing
  /\ outcome' = try_main(args) /\ UNCHANGED <<args, file>>

Next ==
  \/ \E a \in Texts : type_argument(a)
  \/ \E t \in Tables : write_table(t)
  \/ main

Spec == Init /\ [][Next]_vars

----------------------------------------------------------------------------
(***************************************************************************)
(* What the daemon is started with is a topology: every port has a device  *)
(* of its own and a mode that carries something, from a file as from a     *)
(* command line.                                                           *)
(***************************************************************************)
OnlyTopologiesRun ==
  /\ outcome.at \in {"typing", Running, Error, Usage}
  /\ \A i, j \in DOMAIN outcome.specs :
       /\ outcome.specs[i].mode \in PortMode
       /\ outcome.specs[i].name = outcome.specs[j].name => i = j

(***************************************************************************)
(* `--dashboard <bind-addr>` is taken out "wherever it appears": between   *)
(* any two arguments of a command line, before the first or after the last *)
(* it changes nothing but the address.                                     *)
(***************************************************************************)
DashboardAnywhere ==
  \A i \in 0 .. Len(args), addr \in Addresses :
    LET without == try_main(args)
        line == SubSeq(args, 1, i) \o <<flag, addr>> \o SubSeq(args, i + 1, Len(args))
    IN  position(args) = 0 =>
          try_main(line) =
            IF without.at = Running THEN [without EXCEPT !.dashboard = addr]
            ELSE without

----------------------------------------------------------------------------
\* The words of a table on the command line.

numeral(v) == CHOOSE w \in DOMAIN Numeral : Numeral[w] = v

csv(vlans) ==
  [i \in 1 .. 2 * Len(vlans) - 1 |->
     IF i % 2 = 1 THEN numeral(vlans[(i + 1) \div 2]) ELSE ","]

as_argument(t) ==
  t.name \o <<":">> \o
    IF t.mode = "access" THEN <<numeral(t.vlan)>>
    ELSE <<"trunk", ":", IF t.native = NoVlan THEN "-" ELSE numeral(t.native), ":">>
         \o csv(t.allowed)

Writable(t) == deserialize(t) # Refused /\ ~Contains(t.name, ":")

(***************************************************************************)
(* The two grammars agree: ports that can be written both in a file and on *)
(* a command line are accepted by both or by neither, and "both end up as  *)
(* the same Vec<(String, PortMode)>".                                      *)
(***************************************************************************)
GrammarsAgree ==
  file # Unreadable /\ (\A i \in DOMAIN file : Writable(file[i])) =>
    load(file) = parse_port_specs([i \in DOMAIN file |-> as_argument(file[i])])

\* A mode as it is spelled, word by word: a number, or a native VLAN and a list
\* of numbers with one comma between each two.
Words(list) == {i \in DOMAIN list : i % 2 = 1}

IsList(list) ==
  /\ list # << >> => Len(list) % 2 = 1
  /\ \A i \in DOMAIN list : IF i \in Words(list) THEN list[i] \in DOMAIN Numeral
                                                 ELSE list[i] = ","

SpelledAccess(text, mode) ==
  /\ Len(text) = 1 /\ text[1] \in DOMAIN Numeral
  /\ mode = [kind |-> "access", vlan |-> Numeral[text[1]]]

SpelledTrunk(text, mode) ==
  LET native == text[3]
      list == SubSeq(text, 5, Len(text))
  IN  /\ Len(text) >= 4 /\ text[1] = "trunk" /\ text[2] = ":" /\ text[4] = ":"
      /\ native \in {"-"} \cup DOMAIN Numeral /\ IsList(list)
      /\ mode = [kind |-> "trunk",
                 native |-> IF native = "-" THEN NoVlan ELSE Numeral[native],
                 allowed |-> {Numeral[list[i]] : i \in Words(list)}]

(***************************************************************************)
(* Nothing typed is dropped: every word of an argument accepted as a port  *)
(* is in its place and shows in the port's name or mode.  A stray or       *)
(* trailing comma, a missing field or a VLAN too many is an error.         *)
(***************************************************************************)
NothingTypedIsDropped ==
  \A i \in DOMAIN args :
    LET spec == parse_spec(args[i])
        text == SubSeq(args[i], Len(spec.name) + 2, Len(args[i]))
    IN  spec # Refused =>
          /\ args[i] = spec.name \o <<":">> \o text
          /\ SpelledAccess(text, spec.mode) \/ SpelledTrunk(text, spec.mode)
=============================================================================
