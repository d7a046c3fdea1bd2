--------------------------- MODULE MCHotSnapshot ----------------------------
EXTENDS HotSnapshot

Item(kind, key, epoch, class, preparedAt, stdout, stderr, exit) ==
    [kind |-> kind, key |-> key, epoch |-> epoch, class |-> class,
     preparedAt |-> preparedAt, wall |-> 1, stdout |-> stdout, stderr |-> stderr,
     exit |-> exit, hashed |-> TRUE]

\* One command under two proofs, one of them prepared twice; two that rank the
\* same; answers that are too large for their kind; one whose bytes are no longer
\* what was hashed.
SmallPool ==
    {Item("exact", 2, 1, "status", 1, <<1, 2>>, <<>>, 0),
     Item("exact", 2, 2, "status", 2, <<2>>, <<1>>, 1),
     Item("exact", 2, 2, "status", 3, <<3>>, <<>>, 0),
     Item("exact", 4, 1, "metadata", 1, <<1, 1, 1, 1>>, <<>>, 0),
     Item("exact", 3, 1, "cat", 1, <<>>, <<>>, 0),
     Item("warm", 1, 1, "cat", 1, <<2, 2, 2>>, <<>>, 0),
     Item("warm", 5, 2, "cat", 1, <<2, 2>>, <<>>, 0),
     Item("corpus", 6, 1, "corpus", 1, <<3, 1, 3, 1>>, <<>>, 0),
     [Item("exact", 3, 2, "ls", 2, <<1>>, <<>>, 0) EXCEPT !.hashed = FALSE]}
=============================================================================
