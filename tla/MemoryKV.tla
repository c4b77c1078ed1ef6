------------------------------ MODULE MemoryKV ------------------------------
(***************************************************************************)
(* What the memory manager promises its callers about the stored files,    *)
(* whatever happens inside: every path is an atomic register.  A request   *)
(* takes effect at most once, between its arrival and its answer; one that *)
(* is answered with an error has had no effect, one that is answered with  *)
(* success has had all of it, and a read returns what the register held at *)
(* one instant of its own execution.  A halt of the process forgets the    *)
(* requests and keeps the registers.                                       *)
(***************************************************************************)
CONSTANTS Ops,        \* request slots
          Paths,      \* storage paths
          Contents,   \* what a file can hold
          NoMemory    \* the absence of a file

VARIABLES store,      \* path -> content or NoMemory
          stage,      \* slot -> "idle", "open", "applied" or "done"
          req,        \* slot -> its request
          reply,      \* slot -> "none", "ok" or "err"
          got         \* slot -> what a read returned

vars == <<store, stage, req, reply, got>>

Maybe == Contents \cup {NoMemory}

Requests == [kind : {"write"}, path : Paths, content : Contents]
              \cup [kind : {"read", "delete"}, path : Paths, content : {NoMemory}]

NoRequest == [kind |-> "none", path |-> NoMemory, content |-> NoMemory]

Init ==
    /\ store = [p \in Paths |-> NoMemory]
    /\ stage = [o \in Ops |-> "idle"]
    /\ req = [o \in Ops |-> NoRequest]
    /\ reply = [o \in Ops |-> "none"]
    /\ got = [o \in Ops |-> NoMemory]

Invoke(o, r) ==
    /\ stage[o] = "idle"
    /\ stage' = [stage EXCEPT ![o] = "open"]
    /\ req' = [req EXCEPT ![o] = r]
    /\ UNCHANGED <<store, reply, got>>

\* A request that is turned away at the door: invoked and failed at once.
Refuse(o, r) ==
    /\ stage[o] = "idle"
    /\ stage' = [stage EXCEPT ![o] = "done"]
    /\ req' = [req EXCEPT ![o] = r]
    /\ reply' = [reply EXCEPT ![o] = "err"]
    /\ UNCHANGED <<store, got>>

\* The instant a write or a delete takes effect; NoMemory is what a delete stores.
Apply(o) ==
    /\ stage[o] = "open"
    /\ req[o].kind \in {"write", "delete"}
    /\ store' = [store EXCEPT ![req[o].path] = req[o].content]
    /\ stage' = [stage EXCEPT ![o] = "applied"]
    /\ UNCHANGED <<req, reply, got>>

Answer(o, result, value) ==
    /\ stage' = [stage EXCEPT ![o] = "done"]
    /\ reply' = [reply EXCEPT ![o] = result]
    /\ got' = [got EXCEPT ![o] = value]
    /\ UNCHANGED <<store, req>>

Succeed(o) == stage[o] = "applied" /\ Answer(o, "ok", NoMemory)

Fail(o) == stage[o] = "open" /\ Answer(o, "err", NoMemory)

Read(o) ==
    /\ stage[o] = "open"
    /\ req[o].kind = "read"
    /\ Answer(o, "ok", store[req[o].path])

Retire(o) ==
    /\ stage[o] = "done"
    /\ stage' = [stage EXCEPT ![o] = "idle"]
    /\ req' = [req EXCEPT ![o] = NoRequest]
    /\ reply' = [reply EXCEPT ![o] = "none"]
    /\ got' = [got EXCEPT ![o] = NoMemory]
    /\ UNCHANGED store

Halt ==
    /\ stage' = [o \in Ops |-> "idle"]
    /\ req' = [o \in Ops |-> NoRequest]
    /\ reply' = [o \in Ops |-> "none"]
    /\ got' = [o \in Ops |-> NoMemory]
    /\ UNCHANGED store

Next ==
    \/ \E o \in Ops : \/ \E r \in Requests : Invoke(o, r) \/ Refuse(o, r)
                      \/ Apply(o) \/ Succeed(o) \/ Fail(o) \/ Read(o) \/ Retire(o)
    \/ Halt

Spec == Init /\ [][Next]_vars
=============================================================================
