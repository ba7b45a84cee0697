----------------------------- MODULE GraphQuery -----------------------------
(***************************************************************************)
(* Questions asked of the knowledge graph (gpp-graphex query, project and  *)
(* infer) as functions of a graph: the paths a pattern resolves to, the    *)
(* sections of a projection that fit a budget, the modules inferred from   *)
(* changed paths.                                                          *)
(***************************************************************************)
EXTENDS Integers, Sequences, FiniteSets, SequencesExt, FiniteSetsExt

Wild == "*"

(* An edge is [from, to, rel, both]; a step of a path is <<rel, node>>.    *)
OfKind(e, rel) == rel = Wild \/ e.rel = rel

Neighbours(es, n, rel) ==
  {<<e.rel, e.to>> : e \in {x \in es : x.from = n /\ OfKind(x, rel)}}
  \cup {<<e.rel, e.from>> : e \in {x \in es : x.to = n /\ x.both /\ OfKind(x, rel)}}

(* Who points at a node: an edge both ways counts from its from end only.  *)
Predecessors(es, n, rel) == {<<e.rel, e.from>> : e \in {x \in es : x.to = n /\ OfKind(x, rel)}}

(* A path is a sequence of steps, the seed as <<"", seed>>.                *)
Tip(path) == path[Len(path)][2]
Visited(path) == {path[i][2] : i \in DOMAIN path}

Backward(pat) == pat.subject = Wild /\ pat.object # Wild

Seeds(nodes, fit, pat) ==
  IF Backward(pat) THEN {pat.object} \cap nodes
  ELSE IF pat.subject = Wild THEN nodes \cap fit
  ELSE {pat.subject} \cap nodes

Steps(es, pat, n) == IF Backward(pat) THEN Predecessors(es, n, pat.rel) ELSE Neighbours(es, n, pat.rel)

(* One round of the search: every path by every step to a new node.        *)
Extend(es, pat, paths) ==
  UNION {{Append(path, s) : s \in {x \in Steps(es, pat, Tip(path)) : x[2] \notin Visited(path)}} : path \in paths}

Ends(fit, pat, path) ==
  /\ Tip(path) \in fit
  /\ Backward(pat) \/ pat.object \in {Wild, Tip(path)}

(* run: the paths of up to depth rounds.  The filter, the set of nodes that *)
(* fit, is asked of seeds and ends only.                                   *)
Run(nodes, es, fit, pat, depth) ==
  LET rounds[k \in 0 .. depth] ==
        IF k = 0 THEN {<<<<"", n>>>> : n \in Seeds(nodes, fit, pat)} ELSE Extend(es, pat, rounds[k - 1])
  IN  {path \in UNION {rounds[k] : k \in 1 .. depth} : Ends(fit, pat, path)}
-----------------------------------------------------------------------------
(* project: the sections in order while they fit; the first that does not  *)
(* ends it.  Lengths in characters, a token for each four of them.         *)
Tokens(length) == (length + 3) \div 4

(* Mutant of Sections: a section that does not fit is skipped.              *)
Sections_Skipping(header, lengths, budget) ==
  LET add(acc, l) == CASE l = 0 -> acc
                       [] Tokens(acc.length + l) > budget -> [acc EXCEPT !.truncated = TRUE]
                       [] OTHER -> [acc EXCEPT !.length = @ + l, !.kept = Append(@, l)]
  IN  FoldLeft(add, [length |-> header, kept |-> <<>>, truncated |-> FALSE], lengths)

Sections(header, lengths, budget) ==
  LET add(acc, l) == CASE l = 0 -> acc
                       [] acc.truncated \/ Tokens(acc.length + l) > budget -> [acc EXCEPT !.truncated = TRUE]
                       [] OTHER -> [acc EXCEPT !.length = @ + l, !.kept = Append(@, l)]
  IN  FoldLeft(add, [length |-> header, kept |-> <<>>, truncated |-> FALSE], lengths)

(* module_root of a path, a sequence of names.                             *)
ModuleRoot(path) ==
  IF Len(path) >= 2 /\ path[1] \in {"crates", "src"} THEN path[2] ELSE path[1]

(* changed_paths: the files that are new or differ; a deleted file is not  *)
(* among them.  A tree is a function from paths to contents.               *)
ChangedPaths(old, new) == {path \in DOMAIN new : path \in DOMAIN old => old[path] # new[path]}

ModuleRoots(changed) == {ModuleRoot(path) : path \in changed}

(* graphex_owners_for: who owns the touched modules that are in the graph. *)
Owners(nodes, es, changed) ==
  {n \in nodes : \E root \in ModuleRoots(changed) \cap nodes :
     <<"owned-by", n>> \in Neighbours(es, root, "owned-by")}

Suggest(changed, existing) ==
  LET add(acc, path) == IF ModuleRoot(path) \in existing \cup ToSet(acc) THEN acc ELSE Append(acc, ModuleRoot(path))
  IN  FoldLeft(add, <<>>, changed)
-----------------------------------------------------------------------------
(* The searched graphs and patterns: three nodes, one of which a filter    *)
(* refuses, any edges between them of two kinds.                           *)
Names  == {"a", "b", "c"}
Kind   == {[rel |-> "uses", both |-> FALSE], [rel |-> "uses", both |-> TRUE], [rel |-> "owns", both |-> FALSE]}
Spans  == {<<"a", "b">>, <<"b", "c">>, <<"c", "a">>, <<"b", "a">>}
Graphs == {{[from |-> s[1], to |-> s[2], rel |-> f[s].rel, both |-> f[s].both] : s \in DOMAIN f} :
             f \in UNION {[S -> Kind] : S \in SUBSET Spans}}
Patterns == [subject : {Wild, "a"}, rel : {Wild, "uses"}, object : {Wild, "b"}]
Fit == Names \ {"c"}

(* What leads where, as one reads the pattern.                             *)
Leads(es, pat, s, t) ==
  \E e \in es : OfKind(e, pat.rel) /\ e.rel = t[1] /\
    IF Backward(pat) THEN e.to = s[2] /\ e.from = t[2]
    ELSE {e.from, e.to} = {s[2], t[2]} /\ (e.from = s[2] \/ e.both)

(* The paths of one or two edges without repeated nodes that fit a pattern: *)
(* they start at the named end, if there is one in the graph.              *)
PathsOf(nodes, fit, es, pat) ==
  LET steps  == {e.rel : e \in es} \X UNION {{e.from, e.to} : e \in es}
      starts == CASE pat.subject # Wild -> {pat.subject} \cap nodes
                  [] Backward(pat)      -> {pat.object} \cap nodes
                  [] OTHER              -> fit
      ends   == IF Wild \in {pat.subject, pat.object} THEN fit ELSE {pat.object} \cap fit
  IN  {path \in UNION {{<<<<"", n>>>> \o q : n \in starts, q \in [1 .. k -> steps]} : k \in 1 .. 2} :
         /\ IsInjective([i \in DOMAIN path |-> path[i][2]])
         /\ \A i \in 1 .. Len(path) - 1 : Leads(es, pat, path[i], path[i + 1])
         /\ Tip(path) \in ends}

(* A pattern resolves to exactly the paths without repeated nodes from its *)
(* subject, of up to depth edges of its relation, that end where it says,  *)
(* whatever cycles and edges both ways the graph has.                      *)
QueryIsPaths ==
  \A es \in Graphs, pat \in Patterns : Run(Names, es, Fit, pat, 2) = PathsOf(Names, Fit, es, pat)

(* A projection keeps the longest run of sections that fits its budget, in *)
(* the order of the protocol: none is skipped for a later, shorter one.    *)
ProjectionFits ==
  \A lengths \in [1 .. 4 -> 0 .. 5], budget \in 0 .. 5 :
    LET shown == Sections(3, lengths, budget)
        some == SelectSeq(lengths, LAMBDA l : l # 0)
        upto(k) == 3 + FoldLeft(LAMBDA a, b : a + b, 0, SubSeq(some, 1, k))
    IN  /\ shown.kept = SubSeq(some, 1, Len(shown.kept))
        /\ shown.length = upto(Len(shown.kept))
        /\ shown.kept # <<>> => Tokens(shown.length) <= budget
        /\ shown.truncated = (Len(shown.kept) < Len(some))
        /\ shown.truncated => Tokens(upto(Len(shown.kept) + 1)) > budget

(* Inference suggests every module in which a changeset added or modified a *)
(* file and which the graph does not have, and each of them once.          *)
SuggestOnce ==
  LET paths == {<<"crates", "x", "f">>, <<"src", "x", "f">>, <<"y", "f">>, <<"y">>, <<"src">>}
      trees(contents) == UNION {[some -> contents] : some \in SUBSET paths}
  IN  \A old \in trees({1}), new \in trees({1, 2}), existing \in SUBSET {"x", "y", "src"} :
        LET s == Suggest(SetToSeq(ChangedPaths(old, new)), existing)
            same == {path \in DOMAIN old \cap DOMAIN new : new[path] = 1}
        IN  /\ IsInjective(s)
            /\ ToSet(s) = {ModuleRoot(path) : path \in DOMAIN new \ same} \ existing

=============================================================================
