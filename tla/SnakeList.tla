----------------------------- MODULE SnakeList -----------------------------
(***************************************************************************)
(* The doubly linked list of snake/src/linked_list.c on a heap of nodes.   *)
(* The state is the heap and the head pointer of one list; every call is   *)
(* one step.  SnakeGame uses the list as a sequence: the property here is  *)
(* that the pointers are one.                                              *)
(***************************************************************************)
EXTENDS Integers, Sequences, FiniteSets, SequencesExt

CONSTANTS NodeCount,   \* bound: nodes that malloc can give out
          Data         \* what the elements point to, numbers other than NULL

ASSUME NodeAssumption == NodeCount \in Nat \ {0}
ASSUME DataAssumption == Data \subseteq Nat \ {0}

NULL == 0
Nodes == 1 .. NodeCount

VARIABLES heap,       \* [Nodes -> node_t], Freed for a node that is not allocated
          head_list,  \* the head pointer
          last        \* the last call, its argument and its result

listVars == <<heap, head_list, last>>

Freed == [data |-> -1, next |-> -1, prev |-> -1]   \* nothing may follow these pointers
Allocated == {n \in Nodes : heap[n] # Freed}

ListInit == heap = [n \in Nodes |-> Freed] /\ head_list = NULL /\ last = <<"none", NULL, NULL>>

-----------------------------------------------------------------------------
(* Walking the list *)

\* The nodes that a walk from n along the next pointers comes to, up to the NULL.
NextNodes(h, n) ==
  LET node[i \in 0 .. NodeCount] ==
        IF i = 0 THEN n ELSE IF node[i - 1] \in Nodes THEN h[node[i - 1]].next ELSE node[i - 1]
  IN  node

\* The loop "while (curr) curr = curr->next".
LengthOf(h, n) == CHOOSE k \in 0 .. NodeCount :
                    NextNodes(h, n)[k] = NULL /\ \A j \in 0 .. k - 1 : NextNodes(h, n)[j] # NULL

ll_length == LengthOf(heap, head_list)

NodeAt(i) == NextNodes(heap, head_list)[i]
LastNode == NodeAt(ll_length - 1)

ll_get_first == IF head_list = NULL THEN NULL ELSE heap[head_list].data
ll_get_last == IF head_list = NULL THEN NULL ELSE heap[LastNode].data
ll_get(index) == IF index < 0 \/ index >= ll_length THEN NULL ELSE heap[NodeAt(index)].data

Looks ==
  /\ \E i \in -1 .. NodeCount :
       last' \in {<<"length", NULL, ll_length>>, <<"first", NULL, ll_get_first>>,
                  <<"last", NULL, ll_get_last>>, <<"get", i, ll_get(i)>>}
  /\ UNCHANGED <<heap, head_list>>

-----------------------------------------------------------------------------
(* Insertion *)

\* When malloc fails the list stays as it is.
ll_insert_first(d) ==
  /\ last' = <<"insert_first", d, NULL>>
  /\ \/ \E n \in Nodes \ Allocated :
          /\ heap' = [m \in Nodes |->
                        CASE m = n         -> [data |-> d, next |-> head_list, prev |-> NULL]
                          [] m = head_list -> [heap[m] EXCEPT !.prev = n]
                          [] OTHER         -> heap[m]]
          /\ head_list' = n
     \/ Allocated = Nodes /\ UNCHANGED <<heap, head_list>>

\* The result of malloc is used without a test, so it must not be NULL.
ll_insert_last(d) ==
  /\ last' = <<"insert_last", d, NULL>>
  /\ \E n \in Nodes \ Allocated :
       IF head_list = NULL
       THEN /\ heap' = [heap EXCEPT ![n] = [data |-> d, next |-> NULL, prev |-> NULL]]
            /\ head_list' = n
       ELSE /\ heap' = [heap EXCEPT ![n] = [data |-> d, next |-> NULL, prev |-> LastNode],
                                    ![LastNode].next = n]
            /\ UNCHANGED head_list

-----------------------------------------------------------------------------
(* Removal *)

\* Mutant of Unlink: the node behind keeps its pointer to the one removed.
UnlinkForward(n) ==
  [m \in Nodes |->
     CASE m = n                                     -> Freed
       [] m # n /\ n # head_list /\ m = heap[n].prev -> [heap[m] EXCEPT !.next = heap[n].next]
       [] OTHER                                     -> heap[m]]

\* The neighbours of a node are linked with each other, and the node is freed.
Unlink(n) ==
  [m \in Nodes |->
     CASE m = n                                     -> Freed
       [] m # n /\ m = heap[n].next                  -> [heap[m] EXCEPT !.prev = heap[n].prev]
       [] m # n /\ n # head_list /\ m = heap[n].prev -> [heap[m] EXCEPT !.next = heap[n].next]
       [] OTHER                                     -> heap[m]]

\* The first element with these contents goes.
ll_remove_element(d) ==
  LET found == {i \in 0 .. ll_length - 1 : heap[NodeAt(i)].data = d} IN
  IF found = {} THEN last' = <<"remove", d, NULL>> /\ UNCHANGED <<heap, head_list>>
  ELSE LET n == NodeAt(CHOOSE i \in found : \A j \in found : i <= j) IN
       /\ heap' = Unlink(n)
       /\ head_list' = IF n = head_list THEN heap[n].next ELSE head_list
       /\ last' = <<"remove", d, heap[n].data>>

ll_remove_first ==
  /\ last' = <<"remove_first", NULL, ll_get_first>>
  /\ IF head_list = NULL THEN UNCHANGED <<heap, head_list>>
     ELSE /\ head_list' = heap[head_list].next
          /\ heap' = [m \in Nodes |->
                        CASE m = head_list            -> Freed
                          [] m = heap[head_list].next -> [heap[m] EXCEPT !.prev = NULL]
                          [] OTHER                    -> heap[m]]

ll_remove_last ==
  /\ last' = <<"remove_last", NULL, ll_get_last>>
  /\ IF head_list = NULL THEN UNCHANGED <<heap, head_list>>
     ELSE /\ heap' = [m \in Nodes |->
                        CASE m = LastNode                               -> Freed
                          [] m # LastNode /\ m = heap[LastNode].prev     -> [heap[m] EXCEPT !.next = NULL]
                          [] OTHER                                      -> heap[m]]
          /\ head_list' = IF heap[head_list].next = NULL THEN NULL ELSE head_list

\* The pointers of every node change places; a single node is left alone.
ll_reverse ==
  /\ last' = <<"reverse", NULL, NULL>>
  /\ IF ll_length <= 1 THEN UNCHANGED <<heap, head_list>>
     ELSE /\ heap' = [m \in Nodes |->
                        IF \E i \in 0 .. ll_length - 1 : NodeAt(i) = m
                        THEN LET i == CHOOSE j \in 0 .. ll_length - 1 : NodeAt(j) = m IN
                             [heap[m] EXCEPT !.prev = heap[m].next,
                                             !.next = IF i = 0 THEN NULL ELSE NodeAt(i - 1)]
                        ELSE heap[m]]
          /\ head_list' = LastNode

ListNext ==
  \/ Looks
  \/ \E d \in Data : ll_insert_first(d) \/ ll_insert_last(d) \/ ll_remove_element(d)
  \/ ll_remove_first \/ ll_remove_last \/ ll_reverse

\* The calls of a list, from an empty one.
ListSpec == ListInit /\ [][ListNext]_listVars

-----------------------------------------------------------------------------
(* Properties *)

\* The elements in the order of the next pointers.
Elements == [i \in 1 .. ll_length |-> heap[NodeAt(i - 1)].data]

\* What a call does to the sequence, and what it returns.
Removed(s, d) == IF \E i \in 1 .. Len(s) : s[i] = d
                 THEN RemoveAt(s, CHOOSE i \in 1 .. Len(s) : s[i] = d /\ \A j \in 1 .. i - 1 : s[j] # d)
                 ELSE s
Result(s) == IF s = <<>> THEN NULL ELSE s[Len(s)]

SequenceStep ==
  LET op == last'[1]  arg == last'[2]  res == last'[3]  s == Elements IN
  CASE op = "insert_first" -> Elements' \in {<<arg>> \o s} \cup (IF Len(s) = NodeCount THEN {s} ELSE {})
    [] op = "insert_last"  -> Elements' = Append(s, arg)
    [] op = "remove"       -> Elements' = Removed(s, arg) /\ res = (IF Elements' = s THEN NULL ELSE arg)
    [] op = "remove_first" -> Elements' = (IF s = <<>> THEN s ELSE Tail(s)) /\ res = Result(Reverse(s))
    [] op = "remove_last"  -> Elements' = (IF s = <<>> THEN s ELSE Front(s)) /\ res = Result(s)
    [] op = "reverse"      -> Elements' = Reverse(s)
    [] op = "length"       -> Elements' = s /\ res = Len(s)
    [] op = "first"        -> Elements' = s /\ res = Result(Reverse(s))
    [] op = "last"         -> Elements' = s /\ res = Result(s)
    [] op = "get"          -> Elements' = s /\ res = (IF arg + 1 \in 1 .. Len(s) THEN s[arg + 1] ELSE NULL)
    [] OTHER               -> FALSE

\* The nodes that a walk from n along the previous pointers comes to, up to the NULL.
PrevNodes(h, n) ==
  LET node[i \in 0 .. NodeCount] ==
        IF i = 0 THEN n ELSE IF node[i - 1] \in Nodes THEN h[node[i - 1]].prev ELSE node[i - 1]
  IN  node

\* The pointers form a list: from the last node the previous pointers lead back
\* through the same nodes, and every node that is allocated is in the list.
TwoWays ==
  /\ \A i \in 0 .. ll_length - 1 : PrevNodes(heap, LastNode)[i] = NodeAt(ll_length - 1 - i)
  /\ head_list # NULL => heap[head_list].prev = NULL
  /\ Cardinality(Allocated) = ll_length

\* Through any sequence of calls the nodes stay linked both ways without a leak or
\* a dangling pointer, and every call does to the elements what the sequence
\* operation of its name does.
ListIsSequence == [][SequenceStep /\ (heap' = heap \/ TwoWays')]_listVars
=============================================================================
