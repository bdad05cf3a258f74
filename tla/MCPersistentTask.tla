--------------------------- MODULE MCPersistentTask ---------------------------
EXTENDS PersistentTask, TLC

CONSTANTS c1, c2

Asked(op, content, leaves) == [op |-> op, content |-> content, leaves |-> leaves]

\* Two calls at once: a download for a client that needs the content and may
\* leave next to a replication or an upload; two downloads that share pieces
\* and the source; a download next to a deletion; two uploads.
Asked2 ==
    {<<Asked("download", TRUE, TRUE), Asked("replicate", FALSE, FALSE)>>,
     <<Asked("download", TRUE, TRUE), Asked("upload", FALSE, FALSE)>>,
     <<Asked("download", FALSE, FALSE), Asked("download", FALSE, FALSE)>>,
     <<Asked("download", FALSE, TRUE), Asked("delete", FALSE, FALSE)>>,
     <<Asked("upload", FALSE, FALSE), Asked("upload", FALSE, FALSE)>>}

\* In either order, so that the two calls may be exchanged.
MCOpChoices ==
    {[c \in {c1, c2} |-> IF c = d THEN p[1] ELSE p[2]] : p \in Asked2, d \in {c1, c2}}

Symmetry == Permutations({c1, c2})
==============================================================================
