------------------------------ MODULE MCQueue ------------------------------
(* The queue checked against the publish/subscribe log it promises to be.  *)
EXTENDS Queue

PS == INSTANCE PubSub WITH
        Subscribers <- Readers, Capacity <- QUEUE_MAX_ITEMS,
        published <- tail, cursor <- nextItem, inbox <- item,
        stored <- {items[i].messagBuf : i \in Ring} \ {NULL}

\* The queue implements the log: every step of the threads is a step of the
\* log or leaves it alone, with the buffers in the ring for what is stored.
ImplementsPubSub == PS!Spec
=============================================================================
