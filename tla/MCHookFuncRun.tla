---------------------------- MODULE MCHookFuncRun ----------------------------
(* The hook functions of a choice of prototypes; README.md says which.     *)
EXTENDS HookFuncRun

Basic(n)  == [size |-> n, type |-> "Basic", flags |-> {"ByVal"},
              ctor |-> FALSE, copy |-> FALSE, dtor |-> FALSE, assign |-> FALSE]
None      == Basic(0)
Floating(n) == [Basic(n) EXCEPT !.type = "Float"]
Ref       == [Basic(4) EXCEPT !.flags = {"ByRef"}]
Pod(n)    == [Basic(n) EXCEPT !.type = "Object"]
InReg(pi) == [pi EXCEPT !.flags = @ \cup {"RetReg"}]
Class12   == [Pod(12) EXCEPT !.flags = @ \cup {"OCtor", "ODtor", "AssignOp", "CCtor"},
                             !.ctor = TRUE, !.copy = TRUE, !.dtor = TRUE, !.assign = TRUE]
Big       == [Pod(60) EXCEPT !.flags = @ \cup {"AssignOp"}, !.assign = TRUE]

Member(comp, ret, params) == [comp |-> comp, conv |-> {"ThisCall"}, ret |-> ret, params |-> params]

ProtosOf(comp) ==
    << Member(comp, None, <<>>),
       Member(comp, Basic(4), <<Basic(1), Basic(2), Basic(8), Floating(8)>>),
       Member(comp, Basic(8), <<Ref, Floating(4)>>),
       Member(comp, Floating(8), <<Pod(6)>>),
       Member(comp, Ref, <<Basic(4)>>),
       Member(comp, InReg(Pod(8)), <<Basic(4)>>),
       Member(comp, Pod(60), <<Basic(4), Pod(8)>>),
       Member(comp, Class12, <<Basic(4)>>),
       Member(comp, Big, <<Basic(4), Floating(4)>>),
       [Member(comp, Basic(4), <<Basic(4)>>) EXCEPT !.conv = @ \cup {"HasVarArgs", "HasVafmt"}],
       [Member(comp, Pod(12), <<Basic(4)>>) EXCEPT !.conv = @ \cup {"HasVarArgs", "HasVafmt"}] >>

MCProtos == ProtosOf("gcc") \o ProtosOf("msvc") \o
            << Member("msvc", Basic(4), <<Class12, Basic(4)>>),
               Member("msvc", Class12, <<Class12>>) >>

HookScenarios(n) ==
    [kind : {"hook"}, p : 1..n, al : {0, 4, 8, 12}, mode : {"fresh"}, status : {0}]
    \cup [kind : {"hook"}, p : 1..n, al : {0}, mode : {"recall_pre", "recall_post"}, status : {0, 2, 3}]

MCScenarios ==
    HookScenarios(Len(MCProtos))
    \cup [kind : {"pub"}, p : 1..Len(MCProtos), al : {0}, mode : {"fresh", "recall_pre"}, status : {0, 1}]

\* gcc passes these objects by the address of a copy.
FBRProtos == << Member("gcc", None, <<Class12>>) >>
FBRScenarios == [kind : {"hook"}, p : {1}, al : {0}, mode : {"fresh"}, status : {0}]
=============================================================================
