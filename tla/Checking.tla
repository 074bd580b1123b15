------------------------------ MODULE Checking ------------------------------
(****************************************************************************)
(* analyze: the three passes over the modules of a program, a declaration   *)
(* at a time, and the finalization of the lambdas.  A program is a sequence *)
(* of modules [path, decls].  A program without a diagnostic is accepted.   *)
(****************************************************************************)
EXTENDS SemaDecl

CONSTANT Programs

VARIABLES prog,    \* the program
          pass,    \* "register", "resolve", "bodies", "finalize" or "done"
          mi, di,  \* the module and the declaration that are next
          c        \* the checker

vars == <<prog, pass, mi, di, c>>

Module(i) == prog[i].path
Decls == prog[mi].decls
Modules == {Module(i) : i \in DOMAIN prog}

Init == /\ prog \in Programs
        /\ pass = "register"
        /\ mi = 1 /\ di = 0
        /\ c = NewContext(Modules)

Now(p) == pass = p /\ CanContinue(c)

Enter == /\ pass \in {"register", "resolve", "bodies"} /\ CanContinue(c)
         /\ di = 0 /\ mi <= Len(prog)
         /\ c' = enterModule(Module(mi), c)
         /\ di' = 1
         /\ UNCHANGED <<prog, pass, mi>>

Each(p, Handle(_, _)) ==
    /\ Now(p)
    /\ di \in DOMAIN Decls
    /\ c' = Handle(Decls[di], c)
    /\ di' = di + 1
    /\ UNCHANGED <<prog, pass, mi>>

RegisterModuleDeclarations == Each("register", registerName)
ResolveModuleDeclarations == Each("resolve", resolveDeclaration)
ResolveModuleBodies == Each("bodies", resolveBody)

NextPass == [register |-> "resolve", resolve |-> "bodies", bodies |-> "finalize"]
LeaveModule ==
    /\ pass \in DOMAIN NextPass /\ CanContinue(c)
    /\ di = Len(Decls) + 1
    /\ mi' = IF mi < Len(prog) THEN mi + 1 ELSE 1
    /\ pass' = IF mi < Len(prog) THEN pass ELSE NextPass[pass]
    /\ di' = 0
    /\ UNCHANGED <<prog, c>>

FinalizeModuleLambdas ==
    /\ pass = "finalize"
    /\ c' = [c EXCEPT !.final = [m \in Modules |-> IF @[m] # 0 THEN @[m] ELSE c.lambdas[m]]]
    /\ pass' = "done"
    /\ UNCHANGED <<prog, mi, di>>

(* canContinue() is false: analyze returns where it is.  *)
GiveUp == /\ pass # "done" /\ ~CanContinue(c)
          /\ pass' = "done"
          /\ UNCHANGED <<prog, mi, di, c>>

Next == \/ Enter
        \/ RegisterModuleDeclarations \/ ResolveModuleDeclarations \/ ResolveModuleBodies
        \/ LeaveModule
        \/ FinalizeModuleLambdas
        \/ GiveUp

Spec == Init /\ [][Next]_vars

Accepted == pass = "done" /\ c.errs = 0 /\ ~c.aborted
=============================================================================
