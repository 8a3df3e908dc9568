------------------------------- MODULE CallCmd -------------------------------
(***************************************************************************)
(* The tasks call-cmd and encode-cmd, with the subtask helper:call-cmd: a  *)
(* command line is cut into commands, every command is resolved against    *)
(* the deployment file and the access controller, and all of them are sent *)
(* as one transaction: a call of the contract by the account itself when   *)
(* it is a single one without roles, a batch of calls with roles           *)
(* otherwise.  The administrators go on meanwhile.                         *)
(*                                                                         *)
(* A token of the line is a separator, an argument, or the word that names *)
(* roles, object and function of a command.                                *)
(***************************************************************************)
EXTENDS AccessControllerProperties, DeployDb, SequencesExt

CONSTANTS
    Lines,          \* command lines: sequences of tokens
    RoleLists,      \* values of --roles
    File,           \* the deployment file
    Caller,         \* the account that runs the task
    MaxOps          \* bound of the transactions of administrators and of invocations

VARIABLES tool, ops

vars == <<acVars, tool, ops>>

Token(kind) == [kind |-> kind]
Separator == Token("sep")
Argument == Token("arg")

\* obj is [by, of]: by alias, name, role or address; by "none" without a dot.
Word(roles, by, of, fn) ==
    [kind |-> "word", roles |-> roles, obj |-> [by |-> by, of |-> of], fn |-> fn]

\* A function of the contracts: what it demands, its arguments, whether it is a view.
Fn(needs, arity, static) == [needs |-> needs, arity |-> arity, static |-> static]

ToolModes == {"call", "static", "encode"}

-----------------------------------------------------------------------------
(* prepareArgs.                                                            *)

\* A variant that skips a separator at the start of a command.
FaultyCutAt(all, acc, i) ==
    IF all[i] # Separator THEN acc
    ELSE [j |-> i + 1,
          cmds |-> IF i = acc.j THEN acc.cmds
                   ELSE Append(acc.cmds, [word |-> all[acc.j],
                                          args |-> SubSeq(all, acc.j + 1, i - 1)])]

(***************************************************************************)
(* The line is cut at its separators, one of which is appended.  j is the  *)
(* first token of the command; a separator at j itself does not move it,   *)
(* so that an empty command becomes the word of the next one.              *)
(***************************************************************************)
CutAt(all, acc, i) ==
    IF all[i] # Separator \/ i = acc.j THEN acc
    ELSE [j |-> i + 1,
          cmds |-> Append(acc.cmds, [word |-> all[acc.j],
                                     args |-> SubSeq(all, acc.j + 1, i - 1)])]

PrepareArgs(line) ==
    LET all == Append(line, Separator)
        Cut(acc, i) == CutAt(all, acc, i)
    IN  FoldLeftDomain(Cut, [j |-> 1, cmds |-> <<>>], all).cmds

-----------------------------------------------------------------------------
(* parseCommand, findObject and callContract.  A lookup returns the set of *)
(* what it finds; none, or more than one, is an error.                     *)

FindByName(name) ==
    LET named == {a \in {AddrOf(File, name)} : a \in DOMAIN File.instance \cup DOMAIN File.external}
    IN  IF named # {} THEN named
        ELSE {a \in DOMAIN File.external :
                 File.external[a].id = name /\ File.external[a].impl # NoAddr}

\* getAddress of the controller reverts for a role that is a multilet.
FindByRole(role) ==
    {a \in {single[r] : r \in {role} \cap Roles} : a # NoOne}

FindObject(obj) ==
    CASE obj.by = "alias"   -> {Controller}
      [] obj.by = "name"    -> FindByName(obj.of)
      [] obj.by = "role"    -> FindByRole(obj.of)
      [] obj.by = "address" -> {obj.of}
      [] obj.by = "none"    -> {}

Parsed(cmd) == cmd.word.kind = "word" /\ Cardinality(FindObject(cmd.word.obj)) = 1

KnownRoles(cmd, roleList) == cmd.word.roles \cup roleList \subseteq Roles

(***************************************************************************)
(* The words of a line say what the functions need; an address, or a name  *)
(* that is not ambiguous, is one that may be called.                       *)
(***************************************************************************)
WordIsKnown(word) ==
    /\ word.fn.needs \subseteq Roles
    /\ word.obj.by \in {"alias", "name", "role", "address", "none"}
    /\ word.obj.by = "address" => word.obj.of \in Callees
    /\ word.obj.by = "name" /\ Cardinality(FindByName(word.obj.of)) = 1
          => FindByName(word.obj.of) \subseteq Callees

ASSUME CallAssumption ==
    /\ Caller \in Accounts /\ MaxOps \in Nat
    /\ \A line \in Lines :
          /\ line \in Seq(ToSet(line))
          /\ \A i \in DOMAIN line : line[i].kind = "word" => WordIsKnown(line[i])

Encodable(cmd) == Len(cmd.args) = cmd.word.fn.arity

\* applyCall
CallOf(cmd, roleList) ==
    [flags |-> cmd.word.roles \cup roleList,
     to |-> CHOOSE a \in FindObject(cmd.word.obj) : TRUE,
     needs |-> cmd.word.fn.needs]

AllFlags(calls) == UNION {calls[i].flags : i \in DOMAIN calls}

Single(calls) == Len(calls) = 1 /\ AllFlags(calls) = {}

-----------------------------------------------------------------------------

Ended(phase) == [phase |-> phase, line |-> <<>>, roles |-> {}, calls |-> <<>>]

Init ==
    /\ ACInit
    /\ tool = Ended("idle")
    /\ ops = 0

Spend == ops < MaxOps /\ ops' = ops + 1

(***************************************************************************)
(* The task reads the file and the chain.  Nothing is sent for an empty    *)
(* line, for the modes static and encode, for views only, and after an     *)
(* error: unknown or ambiguous objects, unknown roles, wrong arguments.    *)
(***************************************************************************)
Invoke ==
    /\ tool.phase \in {"idle", "failed", "done"} /\ Idle
    /\ Spend
    /\ \E line \in Lines : \E roleList \in RoleLists : \E m \in ToolModes :
         LET cmds == PrepareArgs(line)
             good == \A i \in DOMAIN cmds :
                        Parsed(cmds[i]) /\ KnownRoles(cmds[i], roleList) /\ Encodable(cmds[i])
             calls == [i \in DOMAIN cmds |-> CallOf(cmds[i], roleList)]
             views == AllFlags(calls) = {} /\ \A i \in DOMAIN cmds : cmds[i].word.fn.static
         IN  tool' = IF ~good THEN Ended("failed")
                     ELSE IF m # "call" \/ views THEN Ended("done")
                     ELSE [phase |-> "ready", line |-> line, roles |-> roleList, calls |-> calls]
    /\ UNCHANGED acVars

\* The transaction of a single call without roles is the account's own.
CallDirectly ==
    /\ tool.phase = "ready" /\ Idle /\ Single(tool.calls)
    /\ tool' = Ended(IF tool.calls[1].needs \subseteq masks[Caller] THEN "done" ELSE "failed")
    /\ UNCHANGED <<acVars, ops>>

SendBatch ==
    /\ tool.phase = "ready" /\ ~Single(tool.calls)
    /\ BeginCalls(Caller, tool.calls, FALSE)
    /\ tool' = [tool EXCEPT !.phase = "sent"]
    /\ UNCHANGED ops

\* callWithRolesBatch is for administrators only.
BatchRefused ==
    /\ tool.phase = "ready" /\ ~Single(tool.calls) /\ Idle /\ ~IsAdmin(Caller)
    /\ tool' = Ended("failed")
    /\ UNCHANGED <<acVars, ops>>

Outcome(phase) ==
    /\ tool' = IF tool.phase = "sent" THEN Ended(phase) ELSE tool
    /\ UNCHANGED ops

Next ==
    \/ Invoke \/ CallDirectly \/ SendBatch \/ BatchRefused
    \/ (LendRoles \/ CallReturns \/ CallBack) /\ UNCHANGED <<tool, ops>>
    \/ BatchEnds /\ Outcome("done")
    \/ BatchReverts /\ Outcome("failed")
    \/ (ChangeOwner \/ Expire \/ AdminNext) /\ Spend /\ UNCHANGED tool

Spec == Init /\ [][Next]_vars

-----------------------------------------------------------------------------
(* Properties.                                                             *)

ToolTypeOK ==
    /\ ACTypeOK
    /\ tool.phase \in {"idle", "ready", "sent", "done", "failed"}
    /\ ops \in 0..MaxOps
    /\ tool.phase = "sent" => call.phase # "idle" /\ call.batch = tool.calls

(***************************************************************************)
(* A command is called with the roles it was written with and no others:   *)
(* what an earlier command of the line was lent is gone.                   *)
(***************************************************************************)
RolesNotCarried ==
    call.phase = "lent" /\ ~call.direct => masks[Helper] = CurCall.flags

(***************************************************************************)
(* Roles are lent for one call: while it runs the helper has just those,   *)
(* between calls and after a batch, also one that was reverted, none.      *)
(***************************************************************************)
LentForOneCall == HelperKeepsNothing /\ RolesNotCarried

\* The commands of a line as they were meant: what lies between separators.
Bounds(all) == {0} \cup {i \in DOMAIN all : all[i] = Separator}

Written(line) ==
    LET all == Append(line, Separator)
    IN  {g \in Bounds(all) \X Bounds(all) :
            g[2] > g[1] /\ \A k \in Bounds(all) : k <= g[1] \/ k >= g[2]}

\* The calls are the commands of the line, in their order.
AsWritten(line, roles, calls) ==
    LET groups == {g \in Written(line) : g[2] <= Len(line) \/ g[1] < Len(line)}
        Place(g) == Cardinality({h \in groups : h[2] <= g[2]})
    IN  /\ Cardinality(groups) = Len(calls)
        /\ \A g \in groups :
             LET word == line[g[1] + 1] IN
               /\ word.kind = "word"
               /\ calls[Place(g)].flags = word.roles \cup roles
               /\ calls[Place(g)].needs = word.fn.needs
               /\ g[2] - g[1] - 2 = word.fn.arity

(***************************************************************************)
(* Only what was written is called: the commands that are sent are those   *)
(* between the separators of the line, each with its own roles and those   *)
(* of --roles, and never one that took its word or its arguments from a    *)
(* neighbour.  A line with an empty command is refused, except behind the  *)
(* last separator.                                                         *)
(***************************************************************************)
CalledAsWritten ==
    /\ ToolTypeOK
    /\ tool.phase \in {"ready", "sent"} => AsWritten(tool.line, tool.roles, tool.calls)
=============================================================================
