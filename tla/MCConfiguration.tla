-------------------------- MODULE MCConfiguration --------------------------
(* Every text of up to four separators, every table of up to two VLANs, and *)
(* command lines of up to four arguments of fewer shapes.                   *)
EXTENDS Configuration, TLC

MCNumeral == "0" :> 0 @@ "10" :> 10 @@ "20" :> 20 @@ "4095" :> 4095 @@
             "65535" :> 65535 @@ "65536" :> 65536 @@ "8080" :> 8080

Address == <<"127.0.0.1", ":", "8080">>
MCAddresses == {Address}

CONSTANT MaxSeparators

\* Separators with nothing, or one word, around each.
Word == {"", "tap0", "10", "4095", "65536", "trunk", "-"}
text(word, sep) ==
  SelectSeq([i \in 1 .. 2 * Len(sep) + 1 |->
               IF i % 2 = 1 THEN word[(i + 1) \div 2] ELSE sep[i \div 2]],
            LAMBDA w : w # "")

access_table(name, v) ==
  [name |-> name, mode |-> "access", vlan |-> v, native |-> NoVlan, allowed |-> << >>]
trunk_table(name, v, vs) ==
  [name |-> name, mode |-> "trunk", vlan |-> NoVlan, native |-> v, allowed |-> vs]

MCVlans == {10, 4095, 65536}
GrammarTables ==
  {access_table(n, v) : n \in {<<"tap0">>, <<"tap1">>, <<"a", ":", "b">>}, v \in MCVlans \cup {NoVlan, 0}}
  \cup {trunk_table(n, v, vs) : n \in {<<"tap0">>, <<"tap1">>}, v \in MCVlans \cup {NoVlan},
                                vs \in BoundedSeq(MCVlans \cup {20}, 2)}
  \cup {[access_table(<<"tap0">>, 10) EXCEPT !.mode = "hybrid"],
        [access_table(<<"tap0">>, 10) EXCEPT !.native = 65536]}

LineTexts ==
  {flag, Address, <<"--config">>, <<"ports.toml">>,
   <<"tap0", ":", "10">>, <<"tap1", ":", "10">>, <<"tap1", ":", "65535">>,
   <<"tap0", ":", "trunk", ":", "-", ":", "10", ",", "20">>,
   <<"tap1", ":", "trunk", ":", "-", ":">>}
LineTables ==
  {access_table(<<"tap0">>, 10), trunk_table(<<"tap0">>, NoVlan, <<10, 20>>),
   trunk_table(<<"tap1">>, NoVlan, << >>)}

(***************************************************************************)
(* One argument of any shape beside an empty file, or a file of any tables *)
(* beside an empty command line; or whole command lines beside a file.     *)
(***************************************************************************)
AnyText ==
  args = << >> /\ file = << >> /\ outcome = Typing
  /\ \E n \in 0 .. MaxSeparators :
       \E word \in [1 .. n + 1 -> Word], sep \in [1 .. n -> {":", ","}] :
         type_argument(text(word, sep))

AnyTable == args = << >> /\ \E t \in Tables : write_table(t)

Line ==
  /\ file # Unreadable => ToSet(file) \subseteq LineTables
  /\ ToSet(args) \subseteq Texts
  /\ \E a \in Texts : type_argument(a)

MCNext == AnyText \/ AnyTable \/ Line \/ main
MCSpec == Init /\ [][MCNext]_vars
=============================================================================
