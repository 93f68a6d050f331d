------------------------------- MODULE CProto -------------------------------
(***************************************************************************)
(* CProto (sourcehook_impl_cproto.h and .cpp): prototypes of hooked         *)
(* functions, taken over from the ProtoInfo of a plugin's hook manager, and *)
(* their two comparisons.  == finds the hooks to remove for a description;  *)
(* ExactlyEqual finds a generated hook manager to share.                    *)
(*                                                                          *)
(* Calling conventions and flags are sets of names, the unknown convention  *)
(* the empty one.  paramsPassInfo[0], which only carries the version, is    *)
(* the field version here.  Operators marked "mutant" are wrong on purpose. *)
(***************************************************************************)
EXTENDS Integers, Sequences

CONSTANTS Functions,   \* pointers to constructors, destructors and =
          NULL,
          ProtoInfos,  \* the ProtoInfos plugins give
          Users        \* hook managers that keep a prototype

Pointers  == Functions \cup {NULL}
PassTypes == {"Unknown", "Basic", "Float", "Object"}
PassFlags == {"ByVal", "ByRef", "ODtor", "OCtor", "AssignOp", "CCtor", "RetMem", "RetReg"}
CallConvs == {"ThisCall", "Cdecl", "StdCall", "HasVarArgs", "HasVafmt"}

PassInfo == [size : Nat, type : PassTypes, flags : SUBSET PassFlags,
             pNormalCtor : Pointers, pCopyCtor : Pointers, pDtor : Pointers,
             pAssignOperator : Pointers]

ProtoInfo == [version : Nat, convention : SUBSET CallConvs,
              retPassInfo : PassInfo, paramsPassInfo : Seq(PassInfo)]

\* CProtoInfoBuilder: AddParam and SetReturnType set the flags of what is given.
Described(pi) ==
    [pi EXCEPT !.flags = @ \cup (IF pi.pNormalCtor # NULL THEN {"OCtor"} ELSE {})
                           \cup (IF pi.pCopyCtor # NULL THEN {"CCtor"} ELSE {})
                           \cup (IF pi.pDtor # NULL THEN {"ODtor"} ELSE {})
                           \cup (IF pi.pAssignOperator # NULL THEN {"AssignOp"} ELSE {})]

Built(cc, ret, params) ==
    [version |-> 1, convention |-> cc, retPassInfo |-> Described(ret),
     paramsPassInfo |-> [i \in DOMAIN params |-> Described(params[i])]]

ASSUME ProtoInfosAssumption == ProtoInfos \subseteq ProtoInfo

VARIABLE proto        \* m_Proto of each hook manager

-----------------------------------------------------------------------------
NoPassInfo == [size |-> 0, type |-> "Unknown", flags |-> {},
               pNormalCtor |-> NULL, pCopyCtor |-> NULL, pDtor |-> NULL, pAssignOperator |-> NULL]

\* No comparison looks at the other fields of an invalid prototype.
Invalid == [m_Version |-> -1, m_Convention |-> {}, m_RetPassInfo |-> NoPassInfo,
            m_ParamsPassInfo |-> <<>>]

GetRealFlags(info) == IF info.flags = {} THEN {"ByVal"} ELSE info.flags

OldPassInfo(info) == [NoPassInfo EXCEPT !.size = info.size, !.type = info.type,
                                        !.flags = GetRealFlags(info)]

\* Fill, for a ProtoInfo that is given (NULL is read all the same).
FillWith(P(_), version, info) ==
    [m_Version |-> version, m_Convention |-> info.convention,
     m_RetPassInfo |-> P(info.retPassInfo),
     m_ParamsPassInfo |-> [i \in DOMAIN info.paramsPassInfo |-> P(info.paramsPassInfo[i])]]

Fill(info) ==
    CASE info.version = 0 -> FillWith(OldPassInfo, 0, info)
      [] info.version = 1 -> FillWith(LAMBDA pi : pi, 1, info)
      [] OTHER            -> Invalid

\* An address on the stack is as wide as a pointer.
GetRealSize(info) == IF "ByRef" \in info.flags THEN 4 ELSE info.size

SameKind(a, b) == a.type = b.type /\ a.flags = b.flags

\* operator ==: what is known of both must agree.
CompatibleIfKnown(p, q) ==                                      \* mutant
    /\ p.m_Version >= 0 /\ q.m_Version >= 0
    /\ Len(p.m_ParamsPassInfo) = Len(q.m_ParamsPassInfo)
    /\ \A i \in DOMAIN p.m_ParamsPassInfo :
          LET a == p.m_ParamsPassInfo[i]
              b == q.m_ParamsPassInfo[i]
          IN "Unknown" \in {a.type, b.type} \/ (a.size = b.size /\ SameKind(a, b))
Compatible(p, q) ==
    /\ p.m_Version >= 0 /\ q.m_Version >= 0
    /\ Len(p.m_ParamsPassInfo) = Len(q.m_ParamsPassInfo)
    /\ p.m_Convention = q.m_Convention \/ p.m_Convention = {} \/ q.m_Convention = {}
    /\ GetRealSize(p.m_RetPassInfo) = GetRealSize(q.m_RetPassInfo)
    /\ \A i \in DOMAIN p.m_ParamsPassInfo :
          LET a == p.m_ParamsPassInfo[i]
              b == q.m_ParamsPassInfo[i]
          IN /\ GetRealSize(a) = GetRealSize(b)
             /\ a.type = "Unknown" \/ b.type = "Unknown" \/ SameKind(a, b)

\* IntPassInfo::operator ==, which does not look at the copy constructors.
SamePassInfo(a, b) ==
    /\ a.size = b.size /\ SameKind(a, b)
    /\ a.pNormalCtor = b.pNormalCtor /\ a.pDtor = b.pDtor
    /\ a.pAssignOperator = b.pAssignOperator

ExactlyEqual(p, q) ==
    /\ p.m_Version = q.m_Version
    /\ Len(p.m_ParamsPassInfo) = Len(q.m_ParamsPassInfo)
    /\ p.m_Convention = q.m_Convention
    /\ SamePassInfo(p.m_RetPassInfo, q.m_RetPassInfo)
    /\ \A i \in DOMAIN p.m_ParamsPassInfo :
          SamePassInfo(p.m_ParamsPassInfo[i], q.m_ParamsPassInfo[i])

\* GetParamStackSize and GetParamsStackSize of the hook manager generator.
StackSizes(p) ==
    [i \in DOMAIN p.m_ParamsPassInfo |-> ((GetRealSize(p.m_ParamsPassInfo[i]) + 3) \div 4) * 4]
Total(sizes) ==
    LET upTo[n \in 0..Len(sizes)] == IF n = 0 THEN 0 ELSE upTo[n - 1] + sizes[n]
    IN upTo[Len(sizes)]
GetParamsStackSize(p) == Total(StackSizes(p))

-----------------------------------------------------------------------------
\* CHookManager::SetInfo, which the hook manager calls once.
SetInfo(u, info) ==
    /\ proto[u] = Invalid
    /\ proto' = [proto EXCEPT ![u] = Fill(info)]

\* The hook manager is removed; its place is for another, constructed without one.
Construct(u) == proto' = [proto EXCEPT ![u] = Invalid]

ProtoInit == proto = [u \in Users |-> Invalid]
ProtoNext ==
    \/ \E u \in Users, info \in ProtoInfos : SetInfo(u, info)
    \/ \E u \in Users : Construct(u)
ProtoSpec == ProtoInit /\ [][ProtoNext]_proto

\* Hooks found under another prototype, and hook functions shared with one, are
\* called the same way: a comparison of two prototypes does not depend on which
\* is asked, a valid one is found under itself, compatible functions take and
\* return as many bytes, and whatever is compatible with a prototype is so with
\* one that shares its hook function.
FoundProtosFit ==
    \A u, v \in Users :
       /\ Compatible(proto[u], proto[v]) =>
            /\ Compatible(proto[v], proto[u])
            /\ GetParamsStackSize(proto[u]) = GetParamsStackSize(proto[v])
            /\ GetRealSize(proto[u].m_RetPassInfo) = GetRealSize(proto[v].m_RetPassInfo)
       /\ proto[u].m_Version >= 0 => Compatible(proto[u], proto[u])
       /\ ExactlyEqual(proto[u], proto[v]) =>
            /\ ExactlyEqual(proto[v], proto[u])
            /\ \A w \in Users : Compatible(proto[u], proto[w]) => Compatible(proto[v], proto[w])
=============================================================================
