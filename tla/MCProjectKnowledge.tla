-------------------------- MODULE MCProjectKnowledge --------------------------
(***************************************************************************)
(* ProjectKnowledge with one asker, one writer and two projects.           *)
(***************************************************************************)
EXTENDS ProjectKnowledge

CONSTANTS r1, w1, p1, p2, src, doc, t1, t2, key

Card(p, parent, related, fs) ==
    [project |-> p, parent |-> parent, related |-> related, files |-> fs,
     symbols |-> fs \ {doc}, key |-> IF parent = None THEN key ELSE None]

\* A root with the key that touched the source file; a child that touched the document, of
\* either project, whose parent may be itself.
MCCards ==
    {Card(p1, None, {}, {src}), Card(p1, t1, {}, {doc}), Card(p2, t2, {t1}, {src, doc})}

\* p1 active, or disabled and indexed again; t2 a child of t1, in a circle with it, or missing.
Start(status, other, fs, one, two) ==
    [lifecycle |-> (p1 :> status @@ p2 :> other), files |-> (p1 :> fs @@ p2 :> {}),
     tasks |-> (t1 :> one @@ t2 :> two)]

MCStarts ==
    LET root == Card(p1, None, {}, {src})
        child == Card(p1, t1, {}, {doc})
        guest == Card(p2, t2, {t1}, {src, doc})
    IN  {Start("active", "absent", {src, doc}, root, child),
         Start("active", "active", {src, doc}, child, guest),
         Start("disabled", "absent", {doc}, root, None)}

Question(plan, code, ident, fs, task, feature) ==
    [plan |-> plan, code |-> code, ident |-> ident, files |-> fs, symbols |-> fs \ {doc},
     tasks |-> {}, under |-> IF plan = "locate_file" THEN {src} ELSE {src, doc},
     task |-> task, key |-> None, titled |-> {}, trace |-> TRUE, feature |-> feature]

MCQueries ==
    {Question("search", TRUE, FALSE, {}, t2, None),
     Question("lineage", FALSE, FALSE, {}, t2, None),
     Question("overlay", FALSE, FALSE, {}, t1, None),
     Question("pack", FALSE, FALSE, {}, None, "review"),
     Question("locate_file", TRUE, FALSE, {src}, None, None),
     Question("feature_lookup", FALSE, FALSE, {doc}, None, "review"),
     Question("change_lookup", TRUE, TRUE, {}, t2, "other"),
     Question("change_lookup", FALSE, FALSE, {doc}, None, "other"),
     [Question("search", TRUE, TRUE, {}, None, None) EXCEPT !.key = key, !.titled = {t1}]}
=============================================================================
