------------------------- MODULE MCPublicationRuns -------------------------
EXTENDS PublicationRuns

CONSTANTS w1, w2, w3, c1, c2, none

Each(one, two, three) == [w \in Workflows |-> IF w = w1 THEN one ELSE IF w = w2 THEN two ELSE three]

Published3 == Each("published", "published", "published")

\* w2 calls w1, both drafts on the target.
Chain == [root |-> w2, callees |-> Each(<<>>, <<w1>>, <<>>), source |-> Published3,
          copy |-> Each("draft", "draft", "missing"), versioned |-> TRUE]

\* The source keeps w1 a draft: n8n refuses w2.
DraftCallee == [Chain EXCEPT !.source = Each("draft", "published", "published")]

\* A cycle of w2 and w3, on an instance without publication by versions; w1
\* is called by both and not read.
Cycle == [root |-> w3, callees |-> Each(<<>>, <<w1, w3>>, <<w1, w2>>),
          source |-> Each("unreadable", "published", "published"),
          copy |-> Each("missing", "published", "draft"), versioned |-> FALSE]

\* w3 calls w2, which has no copy and calls w1, which is not found through it.
NoCopy == [Chain EXCEPT !.root = w3, !.callees = Each(<<>>, <<w1>>, <<w2>>),
                        !.copy = Each("draft", "missing", "draft")]

\* w1 is called by the two others; its copy is archived.
Shared == [Chain EXCEPT !.root = w3, !.callees = Each(<<>>, <<w1>>, <<w1, w2>>),
                        !.copy = Each("archived", "published", "draft"), !.versioned = FALSE]

SomeTrees == {Chain, DraftCallee, Cycle, NoCopy, Shared}
=============================================================================
