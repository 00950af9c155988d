------------------------------ MODULE EdgeTrace ------------------------------
(***************************************************************************)
(* The recorded graph's edges and their chronological trace                *)
(* (wendle/graph.py): a networkx MultiDiGraph, whose parallel edges u->v   *)
(* are told apart by integer keys, and the list _edge_order of edge keys   *)
(* that replay re-enacts.                                                  *)
(*                                                                         *)
(* An edge key is <<u, v, k>>; edges maps edge keys to edge data.          *)
(***************************************************************************)
EXTENDS Naturals, FiniteSets, Sequences, SequencesExt

Keys(edges, u, v) == {e[3] : e \in {f \in DOMAIN edges : f[1] = u /\ f[2] = v}}

\* Mutant: a simple graph, whose second edge u->v replaces the first.
OnlyKey(edges, u, v) == 0

\* networkx new_edge_key: start at the number of parallel edges, skip the taken.
NewKey(edges, u, v) ==
  LET taken == Keys(edges, u, v)
      n     == Cardinality(taken)
  IN  CHOOSE k \in n .. 2 * n : k \notin taken /\ \A j \in n .. k - 1 : j \in taken

WithEdge(edges, e, data) ==
  [f \in DOMAIN edges \cup {e} |-> IF f = e THEN data ELSE edges[f]]

Without(edges, gone) == [f \in DOMAIN edges \ gone |-> edges[f]]

Mapped(m, x) == IF x \in DOMAIN m THEN m[x] ELSE x

\* Mutant: the chronological trace keeps the old keys.
TraceUnmapped(remap, order) == order

Trace(remap, order) == [i \in DOMAIN order |-> Mapped(remap, order[i])]

(***************************************************************************)
(* What rekey_screen(old, new) and merge_screens(new, old) do to edges: the*)
(* edges that touch old are added again, a self-loop once, with fresh keys,*)
(* and then dropped with the node.  The result is the edge map and the     *)
(* remap of edge keys.  networkx's iteration order, which only decides     *)
(* which of several edges gets which fresh key, is left to SetToSeq.       *)
(***************************************************************************)
\* Mutant: only the edges out of the renamed node are redirected.
Outgoing(edges, n) == {e \in DOMAIN edges : e[1] = n}

Incident(edges, n) == {e \in DOMAIN edges : n \in {e[1], e[2]}}

NewEnd(old, new, n) == IF n = old THEN new ELSE n

\* Add the edge e again, between the renamed ends; g is what was done so far.
AddAgain(edges, old, new, g, e) ==
  LET u  == NewEnd(old, new, e[1])
      v  == NewEnd(old, new, e[2])
      to == <<u, v, NewKey(g.edges, u, v)>>
  IN  [edges |-> WithEdge(g.edges, to, edges[e]), remap |-> WithEdge(g.remap, e, to)]

Redirect(edges, old, new) ==
  LET es == SetToSeq(Incident(edges, old))
      moved[i \in 0 .. Len(es)] ==
        IF i = 0 THEN [edges |-> edges, remap |-> [e \in {} |-> e]]
        ELSE AddAgain(edges, old, new, moved[i - 1], es[i])
      all == moved[Len(es)]
  IN  [edges |-> Without(all.edges, Incident(edges, old)), remap |-> all.remap]

(***************************************************************************)
(* A whole rename: each node of ms in turn is redirected to its new id.    *)
(* coarsen_family updates one map with every step's remap and then follows *)
(* each value to its end, because a later merge moves an edge again.       *)
(***************************************************************************)
\* Mutant: the composed map is not followed to its end.
OneHop(remap, e, n) == Mapped(remap, e)

Terminal(remap, e, n) ==
  LET hop[i \in 0 .. n] == IF i = 0 THEN e ELSE Mapped(remap, hop[i - 1])
  IN  hop[n]

\* dict.update.
Updated(g, r) ==
  [e \in DOMAIN g \cup DOMAIN r |-> IF e \in DOMAIN r THEN r[e] ELSE g[e]]

RedirectNext(g, old, new) ==
  LET r == Redirect(g.edges, old, new)
  IN  [edges |-> r.edges, order |-> Trace(r.remap, g.order), remap |-> Updated(g.remap, r.remap)]

RedirectAll(edges, order, ms, to) ==
  LET done[i \in 0 .. Len(ms)] ==
        IF i = 0 THEN [edges |-> edges, order |-> order, remap |-> [e \in {} |-> e]]
        ELSE RedirectNext(done[i - 1], ms[i], to[ms[i]])
      all == done[Len(ms)]
  IN  [edges |-> all.edges, order |-> all.order,
       remap |-> [e \in DOMAIN all.remap |-> Terminal(all.remap, e, Len(ms))]]
=============================================================================
