------------------------------ MODULE ApiTable ------------------------------
(***************************************************************************)
(* The table of registered RPCs (src/server/api_table.rs).  A table maps   *)
(* every function name to the Vec of its ApiInfos; a name without a key in *)
(* the HashMap is the name with the empty sequence, since the code treats  *)
(* the two alike (or_insert(Vec::new()), None from get) and removes the    *)
(* key of a list that becomes empty.                                       *)
(*                                                                         *)
(* An Option is a set with at most one element.  register and              *)
(* deregister_by_client are the sets of the tables they may produce:       *)
(* binary_search_by may report any of several equal priorities, retain has *)
(* exactly one result.                                                     *)
(***************************************************************************)
EXTENDS Naturals, Sequences, FiniteSets

(***************************************************************************)
(* The operators whose names have an underscore and a capital letter are   *)
(* wrong on purpose, here and in the other modules: the operator below,    *)
(* with a mistake that one could have made in the code.                    *)
(***************************************************************************)
binary_search_Behind(infos, priority) == {Len(infos) + 1}

(***************************************************************************)
(* binary_search_by on a sorted Vec: Ok(idx) for some entry of the same    *)
(* priority, else Err(idx) for the only place that keeps the order.        *)
(***************************************************************************)
binary_search(infos, priority) ==
  LET equal == {i \in DOMAIN infos : infos[i].priority = priority}
  IN  IF equal # {}
      THEN equal
      ELSE {i \in 1 .. Len(infos) + 1 :
              /\ \A j \in DOMAIN infos : j < i => infos[j].priority < priority
              /\ \A j \in DOMAIN infos : i <= j => priority < infos[j].priority}

insert(infos, index, info) ==
  [k \in 1 .. Len(infos) + 1 |-> IF k < index THEN infos[k]
                                 ELSE IF k = index THEN info
                                 ELSE infos[k - 1]]

register(table, name, info) ==
  {[table EXCEPT ![name] = insert(table[name], index, info)] :
      index \in binary_search(table[name], info.priority)}

(***************************************************************************)
(* The increasing enumerations of a finite set of positions: there is one. *)
(***************************************************************************)
Enumerations(positions) ==
  {e \in [1 .. Cardinality(positions) -> positions] :
      \A i, j \in DOMAIN e : i < j => e[i] < e[j]}

(***************************************************************************)
(* infos.retain(|info| info.client_id != client_id)                        *)
(***************************************************************************)
retain(infos, client_id) ==
  {[k \in DOMAIN e |-> infos[e[k]]] :
      e \in Enumerations({i \in DOMAIN infos : infos[i].client_id # client_id})}

deregister_by_client(table, client_id) ==
  {t \in [DOMAIN table -> UNION {retain(table[n], client_id) : n \in DOMAIN table}] :
      \A n \in DOMAIN table : t[n] \in retain(table[n], client_id)}

get_first(table, name) ==
  {table[name][i] : i \in DOMAIN table[name] \cap {1}}

get_next_SkipsOne(table, name, client_id) ==
  {table[name][i + 2] : i \in {i \in DOMAIN table[name] :
      i + 1 < Len(table[name]) /\ table[name][i].client_id = client_id}}

(***************************************************************************)
(* skip_while(client_id differs).nth(1): the entry that follows the FIRST  *)
(* entry of the client, none when the client has no entry.                 *)
(***************************************************************************)
get_next(table, name, client_id) ==
  LET infos == table[name]
  IN  {infos[i + 1] : i \in {i \in DOMAIN infos :
          /\ i < Len(infos)
          /\ infos[i].client_id = client_id
          /\ \A j \in 1 .. i - 1 : infos[j].client_id # client_id}}

(***************************************************************************)
(* The clients that have registered the name.                              *)
(***************************************************************************)
Registered(table, name) ==
  {table[name][i].client_id : i \in DOMAIN table[name]}

(***************************************************************************)
(* Every list is in ascending order of priority.                           *)
(***************************************************************************)
Sorted(table) ==
  \A n \in DOMAIN table : \A i, j \in DOMAIN table[n] :
      i < j => table[n][i].priority <= table[n][j].priority
=============================================================================
