---------------------------- MODULE HostRegistry ----------------------------
(* The host's table of types and functions, and a view of it with the names *)
(* a mod may see.  Operators on registries: r in DOMAIN regs is a record    *)
(*   names    the names registered in r itself, the i-th has index i        *)
(*   parent   the registry r is a view of, "" for none                      *)
(*   visible  the names a lookup through r may find; only a view filters    *)
(* A function and a type are kept and looked up in the same way; one list   *)
(* of names stands for either.  Indices start at one.                       *)
EXTENDS Naturals, Sequences, SequencesExt

NoEntry == <<"", 0>>           \* nullptr; else <<registry, index>>
NewRegistry == [names |-> << >>, parent |-> "", visible |-> {}]

\* registerFunction, registerType: false when r itself has the name.
CanRegister(regs, r, n) == n \notin ToSet(regs[r].names)
Register(regs, r, n) == [regs EXCEPT ![r].names = Append(@, n)]

scopedView(regs, r, parent, names) == [regs EXCEPT ![r] = [names |-> << >>, parent |-> parent, visible |-> names]]

\* findFunctionIndex, findTypeIndex: zero is UINT32_MAX.
findIndex(regs, r, n) ==
  LET here(q) == {i \in DOMAIN regs[q].names : regs[q].names[i] = n}
      index[q \in DOMAIN regs] ==
        IF regs[q].parent # "" /\ n \notin regs[q].visible THEN 0
        ELSE IF here(q) # {} THEN CHOOSE i \in here(q) : TRUE
        ELSE IF regs[q].parent # "" THEN index[regs[q].parent] ELSE 0
  IN  index[r]

\* resolveTypeByIndex, and the loop of findFunction.
resolveByIndex(regs, r, i) ==
  LET entry[q \in DOMAIN regs] ==
        IF i \in DOMAIN regs[q].names THEN <<q, i>>
        ELSE IF regs[q].parent # "" THEN entry[regs[q].parent] ELSE NoEntry
  IN  entry[r]

find(regs, r, n) == LET i == findIndex(regs, r, n)
                    IN  IF i = 0 THEN NoEntry ELSE resolveByIndex(regs, r, i)
typeAt(regs, r, i) == resolveByIndex(regs, r, i)
=============================================================================
