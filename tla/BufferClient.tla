---------------------------- MODULE BufferClient ----------------------------
(***************************************************************************)
(* The client of an allocator over one buffer.  It keeps every pointer in  *)
(* a variable with the size and the alignment it asked for, keeps the old  *)
(* pointer when a call returns NULL, and uses no pointer it has freed.     *)
(***************************************************************************)
EXTENDS Buffer

VARIABLES
  mem,     (* the allocator's struct and what it wrote to the buffer        *)
  ptr,     (* the client's variables                                        *)
  want,    (* the size and alignment each was asked for                     *)
  fault    (* "none", or what stopped the program: a failed "assert", an
              access through "null", or one past the end of an array or of
              the buffer ("overrun")                                        *)

cvars == <<mem, ptr, want, fault>>

NoRequest == [size |-> 0, align |-> 1]

ClientInit ==
  /\ ptr = [v \in Var |-> NULL]
  /\ want = [v \in Var |-> NoRequest]
  /\ fault = "none"

Running == fault = "none"
Live(v) == ptr[v] # NULL

(* v takes what a call for n units returned. *)
Keep(v, p, n, align) ==
  IF p = NULL THEN UNCHANGED <<ptr, want>>
  ELSE /\ ptr' = [ptr EXCEPT ![v] = p]
       /\ want' = [want EXCEPT ![v] = [size |-> n, align |-> align]]

Forget(S) ==
  /\ ptr' = [v \in Var |-> IF v \in S THEN NULL ELSE ptr[v]]
  /\ want' = [v \in Var |-> IF v \in S THEN NoRequest ELSE want[v]]

ClientTypeOK ==
  /\ ptr \in [Var -> Unit \cup {NULL}]
  /\ want \in [Var -> [size : 0 .. Size, align : Nat \ {0}]]
  /\ fault \in {"none", "assert", "null", "overrun"}
=============================================================================
