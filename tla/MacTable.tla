------------------------------ MODULE MacTable ------------------------------
(***************************************************************************)
(* Learned addresses: src/src/switch/mac_table.rs.  A table is a function  *)
(* whose domain is the set of learned <<vlan, mac>> keys.  An entry keeps  *)
(* its age, now - last_seen, instead of the instant it was last learned:   *)
(* the code never uses that instant for anything else.  Ages stop growing  *)
(* at the eviction limit, beyond which the code does not tell them apart.  *)
(***************************************************************************)
EXTENDS Integers, Functions

\* A HashMap is a function on the keys it holds.
IsMap(map, Keys, Values) ==
  DOMAIN map \subseteq Keys /\ map \in [DOMAIN map -> Values]

insert(map, key, value) ==
  [k \in DOMAIN map \cup {key} |-> IF k = key THEN value ELSE map[k]]

\* Mutant: an address already known is not learned again.
learn_once(table, vlan, mac, port) ==
  IF <<vlan, mac>> \in DOMAIN table THEN table
  ELSE insert(table, <<vlan, mac>>, [port |-> port, age |-> 0])

learn(table, vlan, mac, port) ==
  insert(table, <<vlan, mac>>, [port |-> port, age |-> 0])

known(table, vlan, mac) == <<vlan, mac>> \in DOMAIN table
lookup(table, vlan, mac) == table[<<vlan, mac>>].port

purge_port(table, port) ==
  Restrict(table, {k \in DOMAIN table : table[k].port # port})

evict_older_than(table, max_age) ==
  Restrict(table, {k \in DOMAIN table : table[k].age < max_age})

\* One unit of time, as every entry sees it.
elapse(table, max_age) ==
  [k \in DOMAIN table |->
     [table[k] EXCEPT !.age = IF @ < max_age THEN @ + 1 ELSE @]]
=============================================================================
