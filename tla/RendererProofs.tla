--------------------------- MODULE RendererProofs ---------------------------
(***************************************************************************)
(* For all templates that the parser can return and all data: the renderer *)
(* stays in step with its tokens, never lacks an index to restore, and      *)
(* destroys data only in calls of a template whose sections do not match.  *)
(***************************************************************************)
EXTENDS Renderer, FiniteSetTheorems, SequenceTheorems, TLAPS

TheTemplates ==
    {t \in {j.template : j \in Jobs} \cup {Parsed[n] : n \in Nodes} : FitsTokens(t)}

LoopsInStep(t, ts, rs) ==
    /\ Len(ts) = Len(rs)
    /\ \A k \in 1 .. Len(rs) :
          rs[k] \in 1 .. Len(t.rules) /\ InStep(t, rs[k] + 1, ts[k])

\* The locals of a call, running or suspended.
CallOK(t, r, k, cd, ds, ix, is, ts, rs, h) ==
    /\ t \in TheTemplates
    /\ r \in Nat \ {0} /\ k \in Nat \ {0}
    /\ cd \in Nodes /\ ds \in Seq(Nodes)
    /\ ix \in Int /\ is \in Seq(Int)
    /\ ts \in Seq(Nat) /\ rs \in Seq(Nat)
    /\ h \in BOOLEAN
    /\ InStep(t, r, k)
    /\ LoopsInStep(t, ts, rs)
    /\ Len(ds) <= Len(is)

Frames ==
    [tpl : TheTemplates, rule_node : Nat \ {0}, token_node : Nat \ {0},
     curr_data : Nodes, data_stack : Seq(Nodes), index : Int, index_stack : Seq(Int),
     token_node_stack : Seq(Nat), rule_node_stack : Seq(Nat), hidden : BOOLEAN]

GoodFrames ==
    {f \in Frames : /\ InStep(f.tpl, f.rule_node, f.token_node)
                    /\ LoopsInStep(f.tpl, f.token_node_stack, f.rule_node_stack)
                    /\ Len(f.data_stack) <= Len(f.index_stack)}

LocalsOK == CallOK(tpl, rule_node, token_node, curr_data, data_stack, index, index_stack,
                   token_node_stack, rule_node_stack, hidden)

Outputs == Seq((Values \cup Nodes) \X (Escapings \cup {"text"}))

RestOK ==
    /\ job.escaping \in Escapings
    /\ callers \in Seq(GoodFrames)
    /\ out \in Outputs /\ destroyed \in Seq(Nodes)
    /\ pc \in {"render", "done", "aborted", "crashed"}

\* The inductive invariant.
IInv == LocalsOK /\ RestOK
-----------------------------------------------------------------------------
(***************************************************************************)
(* Sequences, frames and templates.                                        *)
(***************************************************************************)
LEMMA PushProps ==
    ASSUME NEW X, NEW s \in Seq(X), NEW x \in X
    PROVE  /\ push(s, x) \in Seq(X)
           /\ Len(push(s, x)) = Len(s) + 1
           /\ push(s, x)[1] = x
<1>1. <<x>> \in Seq(X) /\ Len(<<x>>) = 1 /\ <<x>>[1] = x
    OBVIOUS
<1>2. QED
    BY <1>1, ConcatProperties DEF push

LEMMA PushBelow ==
    ASSUME NEW X, NEW s \in Seq(X), NEW x \in X, NEW k \in 1 .. Len(s)
    PROVE  push(s, x)[k + 1] = s[k]
<1>1. <<x>> \in Seq(X) /\ Len(<<x>>) = 1
    OBVIOUS
<1>2. QED
    BY <1>1, ConcatProperties DEF push

LEMMA Nothing ==
    ASSUME NEW X, NEW s, s = <<>>
    PROVE  s \in Seq(X) /\ Len(s) = 0
    OBVIOUS

LEMMA PopProps ==
    ASSUME NEW X, NEW s \in Seq(X), Len(s) > 0
    PROVE  /\ Head(s) \in X /\ Head(s) = s[1]
           /\ Tail(s) \in Seq(X) /\ Len(Tail(s)) = Len(s) - 1
           /\ \A k \in 1 .. Len(s) - 1 : Tail(s)[k] = s[k + 1]
    OBVIOUS

LEMMA MakeFrame ==
    ASSUME NEW t, NEW r, NEW k, NEW cd, NEW ds, NEW ix, NEW is, NEW ts, NEW rs, NEW h,
           CallOK(t, r, k, cd, ds, ix, is, ts, rs, h)
    PROVE  [tpl |-> t, rule_node |-> r, token_node |-> k, curr_data |-> cd,
            data_stack |-> ds, index |-> ix, index_stack |-> is,
            token_node_stack |-> ts, rule_node_stack |-> rs, hidden |-> h] \in GoodFrames
    BY DEF CallOK, GoodFrames, Frames

LEMMA UseFrame ==
    ASSUME NEW f \in GoodFrames
    PROVE  CallOK(f.tpl, f.rule_node, f.token_node, f.curr_data, f.data_stack, f.index,
                  f.index_stack, f.token_node_stack, f.rule_node_stack, f.hidden)
    BY DEF CallOK, GoodFrames, Frames

\* The template's own steps.
LEMMA Ahead ==
    ASSUME NEW t \in TheTemplates, NEW r, NEW k, InStep(t, r, k), r <= Len(t.rules)
    PROVE  /\ r \in 1 .. Len(t.rules) /\ k \in 1 .. Len(t.tokens)
           /\ InStep(t, r + 1, k + Width(t.rules[r]))
           /\ r + 1 \in Nat \ {0} /\ k + Width(t.rules[r]) \in Nat \ {0}
<1>1. FitsTokens(t)
    BY DEF TheTemplates
<1>2. Len(t.rules) \in Nat /\ Len(t.tokens) \in Nat
    BY <1>1 DEF FitsTokens
<1>3. r \in 1 .. Len(t.rules) /\ r + 1 \in 1 .. Len(t.rules) + 1
    BY <1>2 DEF InStep
<1>4. k \in 1 .. Len(t.tokens) /\ t.at[r + 1] \in 1 .. Len(t.tokens)
    BY <1>1, <1>2, <1>3 DEF FitsTokens, InStep
<1>5. t.at[r + 1] = k + Width(t.rules[r])
    BY <1>1, <1>3 DEF FitsTokens, InStep
<1>6. QED
    BY <1>2, <1>3, <1>4, <1>5 DEF InStep

LEMMA InStepType ==
    ASSUME NEW t \in TheTemplates, NEW r, NEW k, InStep(t, r, k)
    PROVE  r \in Nat \ {0} /\ k \in Nat \ {0}
<1>1. FitsTokens(t)
    BY DEF TheTemplates
<1>2. Len(t.rules) \in Nat /\ Len(t.tokens) \in Nat
    BY <1>1 DEF FitsTokens
<1>3. t.at[r] \in 1 .. Len(t.tokens)
    BY <1>1, <1>2 DEF FitsTokens, InStep
<1>4. QED
    BY <1>2, <1>3 DEF InStep

LEMMA Start ==
    ASSUME NEW t \in TheTemplates
    PROVE  1 \in 1 .. Len(t.rules) + 1 /\ t.at[1] = 1
<1>1. FitsTokens(t)
    BY DEF TheTemplates
<1>2. QED
    BY <1>1 DEF FitsTokens

\* Opening a loop saves the rule and the token of its body.
LEMMA LoopPushed ==
    ASSUME NEW t \in TheTemplates, NEW ts \in Seq(Nat), NEW rs \in Seq(Nat),
           LoopsInStep(t, ts, rs),
           NEW r \in 1 .. Len(t.rules), NEW k \in Nat, InStep(t, r + 1, k)
    PROVE  /\ push(ts, k) \in Seq(Nat) /\ push(rs, r) \in Seq(Nat)
           /\ LoopsInStep(t, push(ts, k), push(rs, r))
<1>1. Len(t.rules) \in Nat
    BY DEF TheTemplates, FitsTokens
<1>2. r \in Nat
    BY <1>1
<1>3. push(ts, k) \in Seq(Nat) /\ push(ts, k)[1] = k /\ Len(push(ts, k)) = Len(ts) + 1
    BY PushProps
<1>4. push(rs, r) \in Seq(Nat) /\ push(rs, r)[1] = r /\ Len(push(rs, r)) = Len(rs) + 1
    BY <1>2, PushProps
<1>5. ASSUME NEW n \in 1 .. Len(push(rs, r))
      PROVE  /\ push(rs, r)[n] \in 1 .. Len(t.rules)
             /\ InStep(t, push(rs, r)[n] + 1, push(ts, k)[n])
    <2>1. CASE n = 1
        BY <2>1, <1>3, <1>4
    <2>2. CASE n # 1
        <3> DEFINE m == n - 1
        <3>1. m \in 1 .. Len(rs) /\ m \in 1 .. Len(ts) /\ n = m + 1
            BY <2>2, <1>4 DEF LoopsInStep
        <3> HIDE DEF m
        <3>2. push(rs, r)[m + 1] = rs[m] /\ push(ts, k)[m + 1] = ts[m]
            BY <3>1, <1>2, PushBelow
        <3>3. QED
            BY <3>1, <3>2 DEF LoopsInStep
    <2>3. QED
        BY <2>1, <2>2
<1>6. QED
    BY <1>3, <1>4, <1>5 DEF LoopsInStep

LEMMA LoopPopped ==
    ASSUME NEW t, NEW ts \in Seq(Nat), NEW rs \in Seq(Nat),
           LoopsInStep(t, ts, rs), Len(ts) > 0
    PROVE  /\ Tail(ts) \in Seq(Nat) /\ Tail(rs) \in Seq(Nat)
           /\ LoopsInStep(t, Tail(ts), Tail(rs))
           /\ InStep(t, Head(rs) + 1, Head(ts))
<1>1. Len(ts) = Len(rs) /\ Len(rs) > 0
    BY DEF LoopsInStep
<1>2. /\ Tail(ts) \in Seq(Nat) /\ Len(Tail(ts)) = Len(ts) - 1 /\ Head(ts) = ts[1]
      /\ \A n \in 1 .. Len(ts) - 1 : Tail(ts)[n] = ts[n + 1]
    BY PopProps
<1>3. /\ Tail(rs) \in Seq(Nat) /\ Len(Tail(rs)) = Len(rs) - 1 /\ Head(rs) = rs[1]
      /\ \A n \in 1 .. Len(rs) - 1 : Tail(rs)[n] = rs[n + 1]
    BY <1>1, PopProps
<1>4. InStep(t, Head(rs) + 1, Head(ts))
    BY <1>1, <1>2, <1>3 DEF LoopsInStep
<1>5. ASSUME NEW n \in 1 .. Len(Tail(rs))
      PROVE  /\ Tail(rs)[n] \in 1 .. Len(t.rules)
             /\ InStep(t, Tail(rs)[n] + 1, Tail(ts)[n])
    <2>1. n \in 1 .. Len(rs) - 1 /\ n + 1 \in 1 .. Len(rs)
        BY <1>3
    <2>2. Tail(rs)[n] = rs[n + 1] /\ Tail(ts)[n] = ts[n + 1]
        BY <2>1, <1>1, <1>2, <1>3
    <2>3. QED
        BY <2>1, <2>2 DEF LoopsInStep
<1>6. QED
    BY <1>1, <1>2, <1>3, <1>4, <1>5 DEF LoopsInStep
-----------------------------------------------------------------------------
(***************************************************************************)
(* What the parts of the handlers keep.                                    *)
(***************************************************************************)
LEMMA Advances ==
    ASSUME LocalsOK, rule_node <= Len(tpl.rules), NextRule, UNCHANGED tpl,
           token_node' = token_node + Width(Rule)
    PROVE  /\ InStep(tpl', rule_node', token_node')
           /\ rule_node' \in Nat \ {0} /\ token_node' \in Nat \ {0}
    BY Ahead DEF LocalsOK, CallOK, NextRule, Rule

LEMMA Widths ==
    /\ Width(3) = 1
    /\ \A r \in 6 .. 10 : Width(r) = 3
    /\ \A r \in 0 .. 2 \cup 4 .. 5 : Width(r) = 0
    BY DEF Width

LEMMA Slots ==
    ASSUME NEW n \in Nodes, IsArray(n), NEW k \in Int
    PROVE  Slot(n, k) \in Nodes \cup {NULL}
<1>1. Data[n].val \in Seq(Nodes)
    BY DataAssumption DEF IsArray
<1>2. ASSUME k \in 0 .. Length(n) - 1
      PROVE  Data[n].val[k + 1] \in Nodes
    BY <1>1, <1>2 DEF Length
<1>3. QED
    BY <1>2, DataAssumption DEF Slot

LEMMA Gets ==
    ASSUME NEW n \in Nodes, IsHash(n), NEW key, Has(n, key)
    PROVE  Get(n, key) \in Nodes
    BY DataAssumption DEF IsHash, Has, Get

LEMMA Pushes ==
    ASSUME LocalsOK, PushContext
    PROVE  /\ data_stack' \in Seq(Nodes) /\ index_stack' \in Seq(Int)
           /\ Len(data_stack') <= Len(index_stack')
<1>1. /\ data_stack \in Seq(Nodes) /\ curr_data \in Nodes
      /\ index_stack \in Seq(Int) /\ index \in Int
      /\ Len(data_stack) <= Len(index_stack)
    BY DEF LocalsOK, CallOK
<1>2. data_stack' = push(data_stack, curr_data) /\ index_stack' = push(index_stack, index)
    BY DEF PushContext, PushIndex
<1>3. data_stack' \in Seq(Nodes) /\ Len(data_stack') = Len(data_stack) + 1
    BY <1>1, <1>2, PushProps
<1>4. index_stack' \in Seq(Int) /\ Len(index_stack') = Len(index_stack) + 1
    BY <1>1, <1>2, PushProps
<1>5. QED
    BY <1>1, <1>3, <1>4

LEMMA Pops ==
    ASSUME LocalsOK, PopContext
    PROVE  /\ curr_data' \in Nodes /\ data_stack' \in Seq(Nodes)
           /\ IF Len(data_stack) > 0 THEN Len(data_stack') = Len(data_stack) - 1
                                     ELSE Len(data_stack') = Len(data_stack)
<1>1. data_stack \in Seq(Nodes) /\ curr_data \in Nodes
    BY DEF LocalsOK, CallOK
<1>2. CASE Len(data_stack) > 0
    BY <1>1, <1>2, PopProps DEF PopContext
<1>3. CASE ~(Len(data_stack) > 0)
    BY <1>1, <1>3 DEF PopContext
<1>4. QED
    BY <1>2, <1>3

\* Entering a section keeps everything but the context, which it is told.
LEMMA Enters ==
    ASSUME LocalsOK, RestOK, Handles({6}), EnterSection,
           curr_data' \in Nodes, data_stack' \in Seq(Nodes), index_stack' \in Seq(Int),
           Len(data_stack') <= Len(index_stack'), hidden' \in BOOLEAN
    PROVE  IInv'
<1>1. /\ tpl \in TheTemplates /\ index \in Int /\ LoopsInStep(tpl, token_node_stack, rule_node_stack)
      /\ token_node_stack \in Seq(Nat) /\ rule_node_stack \in Seq(Nat)
      /\ InStep(tpl, rule_node, token_node)
    BY DEF LocalsOK, CallOK
<1>2. rule_node <= Len(tpl.rules) /\ Width(Rule) = 3
    BY Widths DEF Handles
<1>3. /\ InStep(tpl', rule_node', token_node') /\ UNCHANGED tpl
      /\ rule_node' \in Nat \ {0} /\ token_node' \in Nat \ {0}
    BY <1>2, Advances DEF EnterSection, TagSkipped, calls
<1>4. rule_node \in 1 .. Len(tpl.rules) /\ rule_node' = rule_node + 1
    BY <1>1, <1>2, Ahead DEF EnterSection, NextRule
<1>5. /\ token_node_stack' \in Seq(Nat) /\ rule_node_stack' \in Seq(Nat) /\ index' \in Int
      /\ LoopsInStep(tpl', token_node_stack', rule_node_stack')
    <2>1. CASE IsArray(curr_data')
        <3>1. /\ token_node_stack' = push(token_node_stack, token_node')
              /\ rule_node_stack' = push(rule_node_stack, rule_node) /\ index' = 0
            BY <2>1 DEF EnterSection
        <3>2. QED
            BY <3>1, <1>1, <1>3, <1>4, LoopPushed
    <2>2. CASE ~IsArray(curr_data')
        BY <2>2, <1>1, <1>3 DEF EnterSection
    <2>3. QED
        BY <2>1, <2>2
<1>6. LocalsOK'
    BY <1>1, <1>3, <1>5 DEF LocalsOK, CallOK
<1>7. RestOK'
    BY DEF RestOK, EnterSection, calls
<1>8. QED
    BY <1>6, <1>7 DEF IInv

\* So does going past a rule that leaves context and loops alone.
LEMMA Passes ==
    ASSUME LocalsOK, RestOK, rule_node <= Len(tpl.rules), NextRule,
           token_node' = token_node + Width(Rule),
           UNCHANGED <<curr_data, data_stack, index_stack, hidden, loops, calls>>,
           index' \in Int, out' \in Outputs
    PROVE  IInv'
<1>1. /\ InStep(tpl', rule_node', token_node') /\ UNCHANGED tpl
      /\ rule_node' \in Nat \ {0} /\ token_node' \in Nat \ {0}
    BY Advances DEF calls
<1>2. LocalsOK'
    BY <1>1 DEF LocalsOK, CallOK, loops
<1>3. RestOK'
    BY DEF RestOK, calls
<1>4. QED
    BY <1>2, <1>3 DEF IInv

\* And stopping where the program is.
LEMMA Stops ==
    ASSUME IInv, UNCHANGED <<context, loops, job, tpl, callers, destroyed, rule_node, token_node, out>>,
           pc' \in {"aborted", "crashed"}
    PROVE  IInv'
    BY DEF IInv, LocalsOK, RestOK, CallOK, context, loops

LEMMA Writes ==
    ASSUME out \in Outputs, NEW item \in Values \cup Nodes,
           NEW mode \in Escapings \cup {"text"}, Written(item, mode)
    PROVE  out' \in Outputs
<1>1. <<item, mode>> \in (Values \cup Nodes) \X (Escapings \cup {"text"})
    OBVIOUS
<1>2. Append(out, <<item, mode>>) \in Outputs
    BY <1>1 DEF Outputs
<1>3. QED
    BY <1>2 DEF Written
-----------------------------------------------------------------------------
(***************************************************************************)
(* The actions.                                                            *)
(***************************************************************************)
LEMMA InitOK == Init => IInv
<1> SUFFICES ASSUME Init PROVE IInv
    OBVIOUS
<1>1. /\ tpl = job.template /\ rule_node = 1 /\ token_node = 1
      /\ curr_data = job.data /\ data_stack = <<>> /\ index_stack = <<>>
      /\ token_node_stack = <<>> /\ rule_node_stack = <<>> /\ hidden = FALSE
      /\ out = <<>> /\ callers = <<>> /\ destroyed = <<>> /\ pc = "render"
      /\ job \in Jobs /\ index \in UninitIndexes
    BY DEF Init
<1>2. tpl \in TheTemplates
    BY <1>1, TemplatesAssumption DEF TheTemplates
<1>3. curr_data \in Nodes /\ job.escaping \in Escapings /\ index \in Int
    BY <1>1, JobsAssumption, DataAssumption
<1>4. LocalsOK
    <2>1. InStep(tpl, rule_node, token_node) /\ LoopsInStep(tpl, token_node_stack, rule_node_stack)
        <3>1. rule_node \in 1 .. Len(tpl.rules) + 1 /\ tpl.at[1] = 1
            BY <1>1, <1>2, Start
        <3>2. InStep(tpl, rule_node, token_node)
            BY <1>1, <3>1 DEF InStep
        <3>3. LoopsInStep(tpl, token_node_stack, rule_node_stack)
            BY <1>1 DEF LoopsInStep
        <3>4. QED
            BY <3>2, <3>3
    <2>2. rule_node \in Nat \ {0} /\ token_node \in Nat \ {0} /\ hidden \in BOOLEAN
        <3>1. hidden \in BOOLEAN
            BY <1>1, Zenon
        <3>2. QED
            BY <1>1, <3>1
    <2>3. /\ data_stack \in Seq(Nodes) /\ index_stack \in Seq(Int)
          /\ token_node_stack \in Seq(Nat) /\ rule_node_stack \in Seq(Nat)
          /\ Len(data_stack) <= Len(index_stack)
        BY <1>1, Nothing
    <2>4. QED
        BY <1>2, <1>3, <2>1, <2>2, <2>3 DEF LocalsOK, CallOK
<1>5. RestOK
    BY <1>1, <1>3 DEF RestOK, Outputs
<1>6. QED
    BY <1>4, <1>5 DEF IInv

LEMMA SkipRuleOK == IInv /\ SkipRule => IInv'
<1> SUFFICES ASSUME IInv, SkipRule PROVE IInv'
    OBVIOUS
<1>1. LocalsOK /\ RestOK /\ index \in Int /\ out \in Outputs /\ token_node \in Nat
    BY DEF IInv, LocalsOK, CallOK, RestOK
<1>2. rule_node <= Len(tpl.rules) /\ Width(Rule) = 0
    BY Widths DEF SkipRule, Handles
<1>3. token_node' = token_node + Width(Rule)
    BY <1>1, <1>2 DEF SkipRule
<1>4. QED
    BY <1>1, <1>2, <1>3, Passes DEF SkipRule, context

LEMMA TextRuleOK == IInv /\ TextRule => IInv'
<1> SUFFICES ASSUME IInv, TextRule PROVE IInv'
    OBVIOUS
<1>1. LocalsOK /\ RestOK /\ index \in Int /\ out \in Outputs /\ tpl \in TheTemplates
      /\ InStep(tpl, rule_node, token_node)
    BY DEF IInv, LocalsOK, CallOK, RestOK
<1>2. rule_node <= Len(tpl.rules) /\ Width(Rule) = 1 /\ Rule = 3
    BY Widths DEF TextRule, Handles
<1>3. Word \in Values
    <2>1. FitsTokens(tpl) /\ rule_node \in 1 .. Len(tpl.rules) /\ token_node \in 1 .. Len(tpl.tokens)
        BY <1>1, <1>2, Ahead DEF TheTemplates
    <2>2. tpl.tokens \in Seq(Values \cup {NULL}) /\ tpl.tokens[token_node] # NULL
        BY <2>1, <1>1, <1>2 DEF FitsTokens, InStep, Rule
    <2>3. QED
        BY <2>1, <2>2 DEF Word
<1>4. out' \in Outputs
    BY <1>1, <1>3, Writes DEF TextRule
<1>5. QED
    BY <1>1, <1>2, <1>4, Passes DEF TextRule, context

LEMMA SectionInHashOK == IInv /\ SectionInHash => IInv'
<1> SUFFICES ASSUME IInv, SectionInHash PROVE IInv'
    OBVIOUS
<1>1. LocalsOK /\ RestOK /\ curr_data \in Nodes /\ hidden \in BOOLEAN
    BY DEF IInv, LocalsOK, CallOK
<1> DEFINE child == Get(curr_data, Key)
<1>2. child \in Nodes
    BY <1>1, Gets DEF SectionInHash
<1>3. curr_data' \in Nodes /\ hidden' \in BOOLEAN
    BY <1>1, <1>2 DEF SectionInHash
<1>4. QED
    BY <1>1, <1>3, Pushes, Enters DEF SectionInHash

LEMMA SectionUndefinedOK == IInv /\ SectionUndefined => IInv'
<1> SUFFICES ASSUME IInv, SectionUndefined PROVE IInv'
    OBVIOUS
<1>1. /\ LocalsOK /\ RestOK /\ curr_data \in Nodes
      /\ data_stack \in Seq(Nodes) /\ index_stack \in Seq(Int)
      /\ Len(data_stack) <= Len(index_stack)
    BY DEF IInv, LocalsOK, CallOK
<1>2. QED
    BY <1>1, Enters DEF SectionUndefined

LEMMA SectionInArrayOK == IInv /\ SectionInArray => IInv'
<1> SUFFICES ASSUME IInv, SectionInArray PROVE IInv'
    OBVIOUS
<1>1. LocalsOK /\ RestOK /\ curr_data \in Nodes /\ hidden \in BOOLEAN /\ index \in Int
    BY DEF IInv, LocalsOK, CallOK
<1> DEFINE e == Slot(curr_data, index)
<1>2. e \in Nodes \cup {NULL}
    BY <1>1, Slots DEF SectionInArray
<1>3. curr_data' \in Nodes
    BY <1>1, <1>2, Gets DEF SectionInArray
<1>4. QED
    BY <1>1, <1>3, Pushes, Enters DEF SectionInArray

LEMMA SectionInScalarOK == IInv /\ SectionInScalar => IInv'
<1> SUFFICES ASSUME IInv, SectionInScalar PROVE IInv'
    OBVIOUS
<1>1. /\ LocalsOK /\ RestOK /\ curr_data \in Nodes /\ hidden \in BOOLEAN
      /\ data_stack \in Seq(Nodes) /\ index_stack \in Seq(Int)
      /\ Len(data_stack) <= Len(index_stack)
    BY DEF IInv, LocalsOK, CallOK
<1>2. QED
    BY <1>1, Enters DEF SectionInScalar

LEMMA CloseRepeatOK == IInv /\ CloseRepeat => IInv'
<1> SUFFICES ASSUME IInv, CloseRepeat PROVE IInv'
    OBVIOUS
<1>1. /\ LocalsOK /\ RestOK /\ tpl \in TheTemplates
      /\ token_node_stack \in Seq(Nat) /\ rule_node_stack \in Seq(Nat)
      /\ LoopsInStep(tpl, token_node_stack, rule_node_stack)
    BY DEF IInv, LocalsOK, CallOK
<1>2. /\ Len(token_node_stack) > 0 /\ token_node' = Head(token_node_stack)
      /\ rule_node' = Head(rule_node_stack) + 1 /\ index' = index + 1
      /\ UNCHANGED <<curr_data, data_stack, index_stack, hidden, loops, calls, out>>
    BY DEF CloseRepeat, InLoop
<1>3. InStep(tpl, rule_node', token_node')
    BY <1>1, <1>2, LoopPopped
<1>4. rule_node' \in Nat \ {0} /\ token_node' \in Nat \ {0}
    BY <1>1, <1>3, InStepType
<1>5. LocalsOK'
    BY <1>1, <1>2, <1>3, <1>4 DEF LocalsOK, CallOK, loops, calls
<1>6. RestOK'
    BY <1>1, <1>2 DEF RestOK, calls
<1>7. QED
    BY <1>5, <1>6 DEF IInv

LEMMA CloseLoopOK == IInv /\ CloseLoop => IInv'
<1> SUFFICES ASSUME IInv, CloseLoop PROVE IInv'
    OBVIOUS
<1>1. /\ LocalsOK /\ RestOK /\ tpl \in TheTemplates /\ hidden \in BOOLEAN
      /\ token_node_stack \in Seq(Nat) /\ rule_node_stack \in Seq(Nat)
      /\ LoopsInStep(tpl, token_node_stack, rule_node_stack)
      /\ data_stack \in Seq(Nodes) /\ index_stack \in Seq(Int) /\ index \in Int
      /\ Len(data_stack) <= Len(index_stack)
    BY DEF IInv, LocalsOK, CallOK
<1>2. rule_node <= Len(tpl.rules) /\ Width(Rule) = 3 /\ Len(token_node_stack) > 0
    BY Widths DEF CloseLoop, Handles, InLoop
<1>3. /\ InStep(tpl', rule_node', token_node') /\ UNCHANGED <<tpl, hidden>>
      /\ rule_node' \in Nat \ {0} /\ token_node' \in Nat \ {0}
    BY <1>1, <1>2, Advances DEF CloseLoop, TagSkipped, calls
<1>4. /\ token_node_stack' \in Seq(Nat) /\ rule_node_stack' \in Seq(Nat)
      /\ LoopsInStep(tpl, token_node_stack', rule_node_stack')
    BY <1>1, <1>2, LoopPopped DEF CloseLoop, PopLoop
<1>5. /\ curr_data' \in Nodes /\ data_stack' \in Seq(Nodes)
      /\ IF Len(data_stack) > 0 THEN Len(data_stack') = Len(data_stack) - 1
                                ELSE Len(data_stack') = Len(data_stack)
    BY <1>1, Pops DEF CloseLoop
<1>6. /\ index' \in Int /\ index_stack' \in Seq(Int) /\ Len(data_stack') <= Len(index_stack')
    <2>1. CASE Len(data_stack) > 0
        <3>1. Len(index_stack) > 0
            BY <2>1, <1>1
        <3>2. index' = Head(index_stack) /\ index_stack' = Tail(index_stack)
            BY <2>1 DEF CloseLoop
        <3>3. index' \in Int /\ index_stack' \in Seq(Int) /\ Len(index_stack') = Len(index_stack) - 1
            BY <1>1, <3>1, <3>2, PopProps
        <3>4. QED
            BY <2>1, <3>3, <1>1, <1>5
    <2>2. CASE ~(Len(data_stack) > 0)
        BY <2>2, <1>1, <1>5 DEF CloseLoop
    <2>3. QED
        BY <2>1, <2>2
<1>7. LocalsOK'
    BY <1>1, <1>3, <1>4, <1>5, <1>6 DEF LocalsOK, CallOK
<1>8. RestOK'
    BY <1>1 DEF RestOK, CloseLoop, calls
<1>9. QED
    BY <1>7, <1>8 DEF IInv

LEMMA CloseContextOK == IInv /\ CloseContext => IInv'
<1> SUFFICES ASSUME IInv, CloseContext PROVE IInv'
    OBVIOUS
<1>1. /\ LocalsOK /\ RestOK /\ hidden \in BOOLEAN
      /\ data_stack \in Seq(Nodes) /\ index_stack \in Seq(Int)
      /\ Len(data_stack) <= Len(index_stack)
    BY DEF IInv, LocalsOK, CallOK
<1>2. rule_node <= Len(tpl.rules) /\ Width(Rule) = 3
    BY Widths DEF CloseContext, Handles
<1>3. /\ InStep(tpl', rule_node', token_node') /\ UNCHANGED <<tpl, loops, index, index_stack>>
      /\ rule_node' \in Nat \ {0} /\ token_node' \in Nat \ {0}
    BY <1>1, <1>2, Advances DEF CloseContext, TagSkipped, calls
<1>4. /\ curr_data' \in Nodes /\ data_stack' \in Seq(Nodes)
      /\ Len(data_stack') <= Len(data_stack)
    BY <1>1, Pops DEF CloseContext, ClosedContext
<1>5. hidden' \in BOOLEAN
    BY DEF CloseContext
<1>6. Len(data_stack') <= Len(index_stack')
    BY <1>1, <1>3, <1>4
<1>7. LocalsOK'
    BY <1>1, <1>3, <1>4, <1>5, <1>6 DEF LocalsOK, CallOK, loops
<1>8. RestOK'
    BY <1>1 DEF RestOK, CloseContext, calls
<1>9. QED
    BY <1>7, <1>8 DEF IInv

\* The node that a tag shows or a partial is rendered with.
LEMMA Lookups ==
    ASSUME LocalsOK
    PROVE  /\ IsArray(curr_data) => Slot(curr_data, index) \in Nodes \cup {NULL}
           /\ Lookup \in Nodes \cup {NULL}
<1>1. curr_data \in Nodes /\ index \in Int
    BY DEF LocalsOK, CallOK
<1>2. IsArray(curr_data) => Slot(curr_data, index) \in Nodes \cup {NULL}
    BY <1>1, Slots
<1>3. QED
    BY <1>1, <1>2 DEF Lookup

LEMMA ValueTagOK == IInv /\ ValueTag => IInv'
<1> SUFFICES ASSUME IInv, ValueTag PROVE IInv'
    OBVIOUS
<1>1. LocalsOK /\ RestOK /\ index \in Int /\ out \in Outputs /\ job.escaping \in Escapings
    BY DEF IInv, LocalsOK, CallOK, RestOK
<1>2. rule_node <= Len(tpl.rules) /\ Width(Rule) = 3
    BY Widths DEF ValueTag, Handles
<1>3. out' \in Outputs
    <2>1. CASE Printable(Shown) /\ Written(Shown, ValueEscaping)
        <3>1. Shown # NULL
            BY <2>1 DEF Printable
        <3>2. Shown \in Nodes
            <4>1. CASE Dotted
                BY <4>1, <3>1, <1>1, Lookups DEF Shown, Dotted
            <4>2. CASE ~Dotted
                <5>1. Lookup \in Nodes /\ IsHash(Lookup) /\ Has(Lookup, Key)
                    BY <4>2, <3>1, <1>1, Lookups DEF Shown
                <5>2. Shown = Get(Lookup, Key)
                    BY <4>2, <3>1, <5>1 DEF Shown
                <5>3. QED
                    BY <5>1, <5>2, Gets
            <4>3. QED
                BY <4>1, <4>2
        <3>3. ValueEscaping \in Escapings \cup {"text"}
            BY <1>1 DEF ValueEscaping, Escapings
        <3>4. QED
            BY <2>1, <3>2, <3>3, <1>1, Writes
    <2>2. CASE UNCHANGED out
        BY <2>2, <1>1
    <2>3. QED
        BY <2>1, <2>2 DEF ValueTag
<1>4. QED
    BY <1>1, <1>2, <1>3, Passes DEF ValueTag, TagSkipped, context

LEMMA PartialSkippedOK == IInv /\ PartialSkipped => IInv'
<1> SUFFICES ASSUME IInv, PartialSkipped PROVE IInv'
    OBVIOUS
<1>1. LocalsOK /\ RestOK /\ index \in Int /\ out \in Outputs
    BY DEF IInv, LocalsOK, CallOK, RestOK
<1>2. rule_node <= Len(tpl.rules) /\ Width(Rule) = 3
    BY Widths DEF PartialSkipped, Handles
<1>3. index' \in Int
    BY <1>1 DEF PartialSkipped, IndexAfterPartial
<1>4. QED
    BY <1>1, <1>2, <1>3, Passes DEF PartialSkipped, TagSkipped

LEMMA PartialRenderedOK == IInv /\ PartialRendered => IInv'
<1> SUFFICES ASSUME IInv, PartialRendered PROVE IInv'
    OBVIOUS
<1>1. LocalsOK /\ RestOK /\ tpl \in TheTemplates /\ index \in Int /\ rule_node \in Nat
    BY DEF IInv, LocalsOK, CallOK
<1>2. rule_node <= Len(tpl.rules) /\ Width(Rule) = 3
    BY Widths DEF PartialRendered, Handles
<1>3. Lookup \in Nodes /\ PartialNode \in Nodes
    BY <1>1, Lookups, Gets, DataAssumption DEF PartialRendered, HoldsTemplate, PartialNode
<1>4. Resumption \in GoodFrames
    <2>1. /\ InStep(tpl, rule_node + 1, TagSkipped)
          /\ rule_node + 1 \in Nat \ {0} /\ TagSkipped \in Nat \ {0}
        BY <1>1, <1>2, Ahead DEF LocalsOK, CallOK, Rule, TagSkipped
    <2>2. IndexAfterPartial \in Int
        BY <1>1 DEF IndexAfterPartial
    <2>3. CallOK(tpl, rule_node + 1, TagSkipped, curr_data, data_stack, IndexAfterPartial,
                 index_stack, token_node_stack, rule_node_stack, hidden)
        BY <1>1, <2>1, <2>2 DEF LocalsOK, CallOK
    <2>4. QED
        BY <2>3, MakeFrame DEF Resumption
<1>5. callers' \in Seq(GoodFrames)
    BY <1>1, <1>4, PushProps DEF PartialRendered, RestOK
<1>6. /\ tpl' = Parsed[PartialNode] /\ rule_node' = 1 /\ token_node' = 1
      /\ curr_data' = Lookup /\ data_stack' = <<>> /\ index_stack' = <<>>
      /\ token_node_stack' = <<>> /\ rule_node_stack' = <<>> /\ hidden' = FALSE
      /\ index' \in UninitIndexes
    BY DEF PartialRendered
<1>7. tpl' \in TheTemplates
    BY <1>3, <1>6, TemplatesAssumption DEF PartialRendered, HoldsTemplate, TheTemplates
<1>8. LocalsOK'
    <2>1. InStep(tpl', rule_node', token_node') /\ LoopsInStep(tpl', token_node_stack', rule_node_stack')
        <3>1. rule_node' \in 1 .. Len(tpl'.rules) + 1 /\ tpl'.at[1] = 1
            BY <1>6, <1>7, Start
        <3>2. InStep(tpl', rule_node', token_node')
            BY <1>6, <3>1 DEF InStep
        <3>3. LoopsInStep(tpl', token_node_stack', rule_node_stack')
            BY <1>6 DEF LoopsInStep
        <3>4. QED
            BY <3>2, <3>3
    <2>2. /\ rule_node' \in Nat \ {0} /\ token_node' \in Nat \ {0}
          /\ curr_data' \in Nodes /\ index' \in Int /\ hidden' \in BOOLEAN
        <3>1. hidden' \in BOOLEAN
            BY <1>6, Zenon
        <3>2. QED
            BY <1>3, <1>6, <3>1, DataAssumption
    <2>3. /\ data_stack' \in Seq(Nodes) /\ index_stack' \in Seq(Int)
          /\ token_node_stack' \in Seq(Nat) /\ rule_node_stack' \in Seq(Nat)
          /\ Len(data_stack') <= Len(index_stack')
        BY <1>6, Nothing
    <2>4. QED
        BY <1>7, <2>1, <2>2, <2>3 DEF LocalsOK, CallOK
<1>9. RestOK'
    BY <1>1, <1>5 DEF RestOK, PartialRendered
<1>10. QED
    BY <1>8, <1>9 DEF IInv

LEMMA StopsOK == IInv /\ (ValueCrash \/ PartialAbort \/ PartialCrash \/ GarbageCrash) => IInv'
    BY Stops DEF ValueCrash, PartialAbort, PartialCrash, GarbageCrash

LEMMA FinishOK == IInv /\ Finish => IInv'
<1> SUFFICES ASSUME IInv, Finish PROVE IInv'
    OBVIOUS
<1>1. LocalsOK /\ RestOK /\ data_stack \in Seq(Nodes)
    BY DEF IInv, LocalsOK, CallOK
<1>2. destroyed' \in Seq(Nodes)
    BY <1>1, ConcatProperties DEF Finish, Cleaned, RestOK
<1>3. LocalsOK'
    BY <1>1 DEF LocalsOK, CallOK, Finish, context, loops
<1>4. RestOK'
    BY <1>1, <1>2 DEF RestOK, Finish
<1>5. QED
    BY <1>3, <1>4 DEF IInv

LEMMA ReturnToCallerOK == IInv /\ ReturnToCaller => IInv'
<1> SUFFICES ASSUME IInv, ReturnToCaller PROVE IInv'
    OBVIOUS
<1>1. LocalsOK /\ RestOK /\ data_stack \in Seq(Nodes) /\ callers \in Seq(GoodFrames)
    BY DEF IInv, LocalsOK, CallOK, RestOK
<1>2. destroyed' \in Seq(Nodes)
    BY <1>1, ConcatProperties DEF ReturnToCaller, Cleaned, RestOK
<1> DEFINE c == Head(callers)
<1>3. c \in GoodFrames /\ Tail(callers) \in Seq(GoodFrames)
    BY <1>1, PopProps DEF ReturnToCaller
<1>4. /\ tpl' = c.tpl /\ rule_node' = c.rule_node /\ token_node' = c.token_node
      /\ curr_data' = c.curr_data /\ data_stack' = c.data_stack
      /\ index' = c.index /\ index_stack' = c.index_stack
      /\ token_node_stack' = c.token_node_stack /\ rule_node_stack' = c.rule_node_stack
      /\ hidden' = c.hidden /\ callers' = Tail(callers) /\ UNCHANGED <<job, out>>
      /\ pc' \in {"crashed", "render"}
    BY DEF ReturnToCaller
<1> HIDE DEF c
<1>5. CallOK(c.tpl, c.rule_node, c.token_node, c.curr_data, c.data_stack, c.index,
             c.index_stack, c.token_node_stack, c.rule_node_stack, c.hidden)
    BY <1>3, UseFrame
<1>6. LocalsOK'
    BY <1>4, <1>5 DEF LocalsOK
<1>7. RestOK'
    BY <1>1, <1>2, <1>3, <1>4 DEF RestOK
<1>8. QED
    BY <1>6, <1>7 DEF IInv
-----------------------------------------------------------------------------
\* Every step keeps the invariant, and so does none.
LEMMA NextOK == IInv /\ [Next]_vars => IInv'
<1> SUFFICES ASSUME IInv, [Next]_vars PROVE IInv'
    OBVIOUS
<1>1. CASE UNCHANGED vars
    BY <1>1 DEF IInv, LocalsOK, RestOK, CallOK, vars, context, loops, calls
<1>2. CASE Next
    <2>1. CASE Stopped
        BY <2>1, <1>1 DEF Stopped
    <2>2. QED
        BY <1>2, <2>1, SkipRuleOK, TextRuleOK, SectionInHashOK, SectionUndefinedOK,
           SectionInArrayOK, SectionInScalarOK, CloseRepeatOK, CloseLoopOK, CloseContextOK,
           ValueTagOK, PartialSkippedOK, PartialRenderedOK, StopsOK, FinishOK,
           ReturnToCallerOK DEF Next
<1>3. QED
    BY <1>1, <1>2

\* In every reachable state.
THEOREM Invariant == Spec => []IInv
<1>1. QED
    BY InitOK, NextOK, PTL DEF Spec

LEMMA CallAligned ==
    ASSUME IInv
    PROVE  /\ FrameAligned(Locals)
           /\ \A k \in 1 .. Len(callers) : callers[k] \in GoodFrames
<1>1. FrameAligned(Locals)
    <2>1. InStep(tpl, rule_node, token_node) /\ LoopsInStep(tpl, token_node_stack, rule_node_stack)
        BY DEF IInv, LocalsOK, CallOK
    <2>2. QED
        BY <2>1 DEF FrameAligned, Locals, LoopsInStep
<1>2. callers \in Seq(GoodFrames)
    BY DEF IInv, RestOK
<1>3. QED
    BY <1>1, <1>2

(***************************************************************************)
(* Whatever the template and the data, the handlers' token and the loop's  *)
(* rule never drift apart, in the running call and in those that wait.     *)
(***************************************************************************)
THEOREM StaysAligned == Spec => []Aligned
<1>1. IInv => Aligned
    <2> SUFFICES ASSUME IInv PROVE Aligned
        OBVIOUS
    <2>1. ASSUME NEW k \in 1 .. Len(callers) PROVE FrameAligned(callers[k])
        <3>1. callers[k] \in GoodFrames
            BY CallAligned
        <3>2. QED
            BY <3>1 DEF GoodFrames, FrameAligned, LoopsInStep
    <2>2. QED
        BY <2>1, CallAligned DEF Aligned
<1>2. QED
    BY <1>1, Invariant, PTL

(***************************************************************************)
(* handle_close_tag always finds the index that it restores.               *)
(***************************************************************************)
THEOREM IndexIsThere == Spec => []IndexesSaved
<1>1. IInv => IndexesSaved
    <2> SUFFICES ASSUME IInv PROVE IndexesSaved
        OBVIOUS
    <2>1. ASSUME NEW k \in 1 .. Len(callers)
          PROVE  Len(callers[k].data_stack) <= Len(callers[k].index_stack)
        <3>1. callers[k] \in GoodFrames
            BY CallAligned
        <3>2. QED
            BY <3>1 DEF GoodFrames
    <2>2. QED
        BY <2>1 DEF IndexesSaved, IInv, LocalsOK, CallOK
<1>2. QED
    BY <1>1, Invariant, PTL

\* The variables of the renderer keep their types.
THEOREM TypeCorrect == Spec => []TypeOK
<1>1. IInv => TypeOK
    BY DEF IInv, LocalsOK, RestOK, CallOK, TheTemplates, TypeOK, Outputs
<1>2. QED
    BY <1>1, Invariant, PTL
-----------------------------------------------------------------------------
(***************************************************************************)
(* Matched sections.  The contexts have levels: the call's data is at 0,   *)
(* the current one at the height of the stack.                             *)
(***************************************************************************)
NodeAt(cd, ds, l) == IF l = Len(ds) THEN cd ELSE ds[Len(ds) - l]

\* The loops under way are those over the levels that are arrays, the innermost
\* first, and the body of none was entered with more on the stack than is open there.
IsLevels(t, cd, ds, rs, levels) ==
    /\ levels \in [1 .. Len(rs) -> 1 .. Len(ds)]
    /\ \A j, k \in 1 .. Len(rs) : j < k => levels[j] > levels[k]
    /\ \A l \in 1 .. Len(ds) :
          IsArray(NodeAt(cd, ds, l)) <=> \E k \in 1 .. Len(rs) : levels[k] = l
    /\ SectionsMatch(t) => \A k \in 1 .. Len(rs) : levels[k] <= OpenAt(t, rs[k] + 1)

LoopsHaveLevels(t, cd, ds, rs) == \E levels : IsLevels(t, cd, ds, rs, levels)

\* There is at most one context on the stack for each section that is open.
CallNests(t, r, cd, ds, rs) ==
    /\ SectionsMatch(t) => Len(ds) <= OpenAt(t, r)
    /\ LoopsHaveLevels(t, cd, ds, rs)

FrameNests(f) ==
    CallNests(f.tpl, f.rule_node, f.curr_data, f.data_stack, f.rule_node_stack)

Nests ==
    /\ CallNests(tpl, rule_node, curr_data, data_stack, rule_node_stack)
    /\ \A k \in 1 .. Len(callers) : FrameNests(callers[k])
-----------------------------------------------------------------------------
\* A section's rule opens one more, a closing one less.
LEMMA BeforeNext ==
    ASSUME NEW t, NEW rule, NEW r \in Nat \ {0}
    PROVE  /\ Cardinality(Before(t, r, rule)) \in Nat
           /\ Cardinality(Before(t, r + 1, rule)) =
                  Cardinality(Before(t, r, rule)) + IF t.rules[r] = rule THEN 1 ELSE 0
<1>1. IsFiniteSet(Before(t, r, rule))
    <2>1. IsFiniteSet(1 .. r - 1)
        BY FS_Interval
    <2>2. Before(t, r, rule) \subseteq 1 .. r - 1
        BY DEF Before
    <2>3. QED
        BY <2>1, <2>2, FS_Subset
<1>2. /\ Before(t, r + 1, rule) =
             IF t.rules[r] = rule THEN Before(t, r, rule) \cup {r} ELSE Before(t, r, rule)
      /\ r \notin Before(t, r, rule)
    <2>1. \A k : k \in 1 .. (r + 1) - 1 <=> k \in 1 .. r - 1 \/ k = r
        OBVIOUS
    <2>2. r \notin 1 .. r - 1
        OBVIOUS
    <2>3. QED
        BY <2>1, <2>2 DEF Before
<1>3. Cardinality(Before(t, r, rule)) \in Nat
    BY <1>1, FS_CardinalityType
<1>4. Cardinality(Before(t, r, rule) \cup {r}) = Cardinality(Before(t, r, rule)) + 1
    BY <1>1, <1>2, FS_AddElement
<1>5. QED
    BY <1>2, <1>3, <1>4

\* The count of the sections that are open after one rule more.
LEMMA OpenNext ==
    ASSUME NEW t, NEW r \in Nat \ {0}
    PROVE  /\ OpenAt(t, r) \in Int
           /\ OpenAt(t, r + 1) = IF t.rules[r] = 6 THEN OpenAt(t, r) + 1
                                 ELSE IF t.rules[r] = 7 THEN OpenAt(t, r) - 1
                                 ELSE OpenAt(t, r)
<1>1. /\ Cardinality(Before(t, r, 6)) \in Nat /\ Cardinality(Before(t, r, 7)) \in Nat
      /\ Cardinality(Before(t, r + 1, 6)) =
             Cardinality(Before(t, r, 6)) + IF t.rules[r] = 6 THEN 1 ELSE 0
      /\ Cardinality(Before(t, r + 1, 7)) =
             Cardinality(Before(t, r, 7)) + IF t.rules[r] = 7 THEN 1 ELSE 0
    BY BeforeNext
<1>2. QED
    BY <1>1 DEF OpenAt

\* None is open before the first rule.
LEMMA OpenFirst == \A t : OpenAt(t, 1) = 0
<1>1. \A t, rule : Before(t, 1, rule) = {}
    BY DEF Before
<1>2. QED
    BY <1>1, FS_EmptySet DEF OpenAt

\* Where the sections match, none is closed before it is opened.
LEMMA NeverNegative ==
    ASSUME NEW t, SectionsMatch(t), NEW r \in 1 .. Len(t.rules) + 1, Len(t.rules) \in Nat
    PROVE  OpenAt(t, r) >= 0
<1>1. r = Len(t.rules) + 1 \/ r \in 1 .. Len(t.rules)
    OBVIOUS
<1>2. QED
    BY <1>1 DEF SectionsMatch
-----------------------------------------------------------------------------
\* A level more, and its loop if it is an array: the body of the section's rule r.
LEMMA LevelsPushed ==
    ASSUME NEW t, NEW cd \in Nodes, NEW ds \in Seq(Nodes), NEW rs \in Seq(Nat),
           LoopsHaveLevels(t, cd, ds, rs),
           NEW new \in Nodes, NEW r \in Nat,
           SectionsMatch(t) => Len(ds) + 1 <= OpenAt(t, r + 1)
    PROVE  LoopsHaveLevels(t, new, push(ds, cd), IF IsArray(new) THEN push(rs, r) ELSE rs)
<1> DEFINE n == Len(ds)
           over == push(ds, cd)
           inner == IF IsArray(new) THEN push(rs, r) ELSE rs
<1>1. PICK levels : IsLevels(t, cd, ds, rs, levels)
    BY DEF LoopsHaveLevels
<1>2. /\ n \in Nat /\ Len(rs) \in Nat
      /\ over \in Seq(Nodes) /\ Len(over) = n + 1 /\ over[1] = cd
      /\ \A k \in 1 .. n : over[k + 1] = ds[k]
    <2>1. over \in Seq(Nodes) /\ Len(over) = n + 1 /\ over[1] = cd
        BY PushProps
    <2>2. \A k \in 1 .. Len(ds) : push(ds, cd)[k + 1] = ds[k]
        BY PushBelow
    <2>3. n \in Nat /\ Len(rs) \in Nat
        OBVIOUS
    <2>4. QED
        BY <2>1, <2>2, <2>3
<1>3. /\ NodeAt(new, over, n + 1) = new
      /\ \A l \in 1 .. n : NodeAt(new, over, l) = NodeAt(cd, ds, l)
    <2>1. NodeAt(new, over, n + 1) = new
        BY <1>2 DEF NodeAt
    <2>2. ASSUME NEW l \in 1 .. n PROVE NodeAt(new, over, l) = NodeAt(cd, ds, l)
        <3> HIDE DEF over
        <3>1. NodeAt(new, over, l) = over[n + 1 - l]
            BY <1>2 DEF NodeAt
        <3>2. CASE l = n
            <4>1. n + 1 - l = 1
                BY <1>2, <3>2
            <4>2. QED
                BY <1>2, <3>1, <3>2, <4>1 DEF NodeAt
        <3>3. CASE l # n
            <4> DEFINE m == n - l
            <4>1. m \in 1 .. n /\ n + 1 - l = m + 1
                BY <1>2, <3>3
            <4>2. NodeAt(cd, ds, l) = ds[m]
                BY <3>3 DEF NodeAt
            <4> HIDE DEF m
            <4>3. QED
                BY <1>2, <3>1, <4>1, <4>2
        <3>4. QED
            BY <3>2, <3>3
    <2>3. QED
        BY <2>1, <2>2
<1>4. /\ \A k \in 1 .. Len(rs) : levels[k] \in 1 .. n
      /\ \A j, k \in 1 .. Len(rs) : j < k => levels[j] > levels[k]
      /\ \A l \in 1 .. n :
            IsArray(NodeAt(cd, ds, l)) <=> \E k \in 1 .. Len(rs) : levels[k] = l
      /\ SectionsMatch(t) => \A k \in 1 .. Len(rs) : levels[k] <= OpenAt(t, rs[k] + 1)
    BY <1>1 DEF IsLevels
<1> HIDE DEF n, over
<1>5. CASE ~IsArray(new)
    <2>1. inner = rs
        BY <1>5
    <2>2. levels \in [1 .. Len(rs) -> 1 .. Len(over)]
        <3>1. DOMAIN levels = 1 .. Len(rs) /\ levels \in [1 .. Len(rs) -> 1 .. n]
            BY <1>1 DEF IsLevels, n
        <3>2. \A k \in 1 .. Len(rs) : levels[k] \in 1 .. n + 1
            BY <1>2, <1>4
        <3>3. QED
            BY <1>2, <3>1, <3>2
    <2>3. ASSUME NEW l \in 1 .. Len(over)
          PROVE  IsArray(NodeAt(new, over, l)) <=> \E k \in 1 .. Len(rs) : levels[k] = l
        <3>1. CASE l \in 1 .. n
            BY <1>3, <1>4, <3>1
        <3>2. CASE l \notin 1 .. n
            <4>1. l = n + 1
                BY <1>2, <3>2
            <4>2. \A k \in 1 .. Len(rs) : levels[k] # l
                BY <1>4, <3>2
            <4>3. QED
                BY <1>3, <1>5, <4>1, <4>2
        <3>3. QED
            BY <3>1, <3>2
    <2>4. IsLevels(t, new, over, rs, levels)
        BY <1>4, <2>2, <2>3 DEF IsLevels
    <2>5. QED
        BY <2>1, <2>4 DEF LoopsHaveLevels, over
<1>6. CASE IsArray(new)
    <2> DEFINE all == push(rs, r)
               more == [k \in 1 .. Len(rs) + 1 |-> IF k = 1 THEN n + 1 ELSE levels[k - 1]]
    <2>1. /\ all \in Seq(Nat) /\ Len(all) = Len(rs) + 1 /\ all[1] = r
          /\ \A k \in 1 .. Len(rs) : all[k + 1] = rs[k]
        BY PushProps, PushBelow
    <2>2. inner = all
        BY <1>6
    <2> HIDE DEF all
    <2>3. /\ DOMAIN more = 1 .. Len(all) /\ more[1] = n + 1
          /\ \A k \in 1 .. Len(rs) : more[k + 1] = levels[k]
        <3>1. \A k \in 1 .. Len(rs) : k + 1 \in 1 .. Len(rs) + 1 /\ k + 1 # 1 /\ (k + 1) - 1 = k
            BY <1>2
        <3>2. 1 \in 1 .. Len(rs) + 1
            BY <1>2
        <3>3. QED
            BY <2>1, <3>1, <3>2
    <2>4. \A k \in 1 .. Len(all) : k = 1 \/ \E i \in 1 .. Len(rs) : k = i + 1
        <3> SUFFICES ASSUME NEW k \in 1 .. Len(all), k # 1 PROVE \E i \in 1 .. Len(rs) : k = i + 1
            OBVIOUS
        <3>1. k - 1 \in 1 .. Len(rs) /\ k = (k - 1) + 1
            BY <1>2, <2>1
        <3>2. QED
            BY <3>1
    <2>0. more \in [1 .. Len(all) -> {more[k] : k \in 1 .. Len(all)}]
        BY <2>3
    <2> HIDE DEF more
    <2>5. ASSUME NEW k \in 1 .. Len(all) PROVE more[k] \in 1 .. Len(over)
        <3>1. CASE k = 1
            BY <1>2, <2>3, <3>1
        <3>2. CASE k # 1
            <4>1. PICK i \in 1 .. Len(rs) : k = i + 1
                BY <2>4, <3>2
            <4>2. more[k] = levels[i] /\ levels[i] \in 1 .. n
                BY <1>4, <2>3, <4>1
            <4>3. QED
                BY <1>2, <4>2
        <3>3. QED
            BY <3>1, <3>2
    <2>6. more \in [1 .. Len(all) -> 1 .. Len(over)]
        BY <2>0, <2>5
    <2>7. ASSUME NEW j \in 1 .. Len(all), NEW k \in 1 .. Len(all), j < k
          PROVE  more[j] > more[k]
        <3>1. PICK m \in 1 .. Len(rs) : k = m + 1
            BY <2>4, <2>7
        <3>2. more[k] = levels[m] /\ levels[m] \in 1 .. n
            BY <1>4, <2>3, <3>1
        <3>3. CASE j = 1
            BY <1>2, <2>3, <3>2, <3>3
        <3>4. CASE j # 1
            <4>1. PICK i \in 1 .. Len(rs) : j = i + 1
                BY <2>4, <3>4
            <4>2. i < m
                BY <2>7, <3>1, <4>1
            <4>3. QED
                BY <1>4, <2>3, <3>2, <4>1, <4>2
        <3>5. QED
            BY <3>3, <3>4
    <2>8. ASSUME NEW l \in 1 .. Len(over)
          PROVE  IsArray(NodeAt(new, over, l)) <=> \E k \in 1 .. Len(all) : more[k] = l
        <3>1. CASE l \in 1 .. n
            <4>1. ASSUME NEW k \in 1 .. Len(rs), levels[k] = l
                  PROVE  \E i \in 1 .. Len(all) : more[i] = l
                <5>1. Len(rs) \in Nat /\ Len(all) = Len(rs) + 1
                    BY <1>2, <2>1
                <5>2. k + 1 \in 1 .. Len(all)
                    BY <5>1
                <5>3. more[k + 1] = l
                    BY <2>3, <4>1
                <5>4. QED
                    BY <5>2, <5>3
            <4>2. ASSUME NEW k \in 1 .. Len(all), more[k] = l
                  PROVE  \E i \in 1 .. Len(rs) : levels[i] = l
                <5>1. k # 1
                    BY <1>2, <2>3, <3>1, <4>2
                <5>2. QED
                    BY <2>3, <2>4, <4>2, <5>1
            <4>3. QED
                BY <1>3, <1>4, <3>1, <4>1, <4>2
        <3>2. CASE l \notin 1 .. n
            <4>1. l = n + 1
                BY <1>2, <3>2
            <4>2. 1 \in 1 .. Len(all)
                BY <1>2, <2>1
            <4>3. QED
                BY <1>3, <1>6, <2>3, <4>1, <4>2
        <3>3. QED
            BY <3>1, <3>2
    <2>9. ASSUME SectionsMatch(t), NEW k \in 1 .. Len(all)
          PROVE  more[k] <= OpenAt(t, all[k] + 1)
        <3>1. CASE k = 1
            BY <2>1, <2>3, <2>9, <3>1 DEF n
        <3>2. CASE k # 1
            <4>1. PICK i \in 1 .. Len(rs) : k = i + 1
                BY <2>4, <3>2
            <4>2. QED
                BY <1>4, <2>1, <2>3, <2>9, <4>1
        <3>3. QED
            BY <3>1, <3>2
    <2>10. IsLevels(t, new, over, all, more)
        BY <2>6, <2>7, <2>8, <2>9 DEF IsLevels
    <2>11. QED
        BY <2>2, <2>10 DEF LoopsHaveLevels, over
<1>7. QED
    BY <1>5, <1>6

\* The innermost loop is over the current context, if that is an array.
LEMMA TopLevel ==
    ASSUME NEW t, NEW cd \in Nodes, NEW ds \in Seq(Nodes), NEW rs \in Seq(Nat),
           NEW levels, IsLevels(t, cd, ds, rs, levels), IsArray(cd)
    PROVE  /\ Len(ds) > 0 <=> Len(rs) > 0
           /\ Len(rs) > 0 => levels[1] = Len(ds)
<1>1. Len(ds) \in Nat /\ Len(rs) \in Nat /\ NodeAt(cd, ds, Len(ds)) = cd
    BY DEF NodeAt
<1>2. Len(rs) > 0 => Len(ds) > 0
    <2> SUFFICES ASSUME Len(rs) > 0 PROVE Len(ds) > 0
        OBVIOUS
    <2>1. 1 \in 1 .. Len(rs)
        BY <1>1
    <2>2. levels[1] \in 1 .. Len(ds)
        BY <2>1 DEF IsLevels
    <2>3. QED
        BY <1>1, <2>2
<1>3. ASSUME Len(ds) > 0 PROVE Len(rs) > 0 /\ levels[1] = Len(ds)
    <2>1. Len(ds) \in 1 .. Len(ds)
        BY <1>1, <1>3
    <2>2. PICK k \in 1 .. Len(rs) : levels[k] = Len(ds)
        BY <1>1, <2>1 DEF IsLevels
    <2>3. 1 \in 1 .. Len(rs) /\ Len(rs) > 0
        BY <1>1, <2>2
    <2>4. levels[1] \in 1 .. Len(ds)
        BY <2>3 DEF IsLevels
    <2>5. 1 < k => levels[1] > levels[k]
        BY <2>2, <2>3 DEF IsLevels
    <2>6. QED
        BY <1>1, <2>2, <2>3, <2>4, <2>5
<1>4. QED
    BY <1>2, <1>3

\* Where it is, its body was entered with this many sections open, or with more.
LEMMA LevelsTop ==
    ASSUME NEW t, NEW cd \in Nodes, NEW ds \in Seq(Nodes), NEW rs \in Seq(Nat),
           LoopsHaveLevels(t, cd, ds, rs), IsArray(cd)
    PROVE  /\ Len(ds) > 0 <=> Len(rs) > 0
           /\ Len(rs) > 0 /\ SectionsMatch(t) => Len(ds) <= OpenAt(t, Head(rs) + 1)
<1>1. PICK levels : IsLevels(t, cd, ds, rs, levels)
    BY DEF LoopsHaveLevels
<1>2. /\ Len(ds) > 0 <=> Len(rs) > 0
      /\ Len(rs) > 0 => levels[1] = Len(ds)
    BY <1>1, TopLevel
<1>3. Len(rs) > 0 => 1 \in 1 .. Len(rs) /\ Head(rs) = rs[1]
    OBVIOUS
<1>4. QED
    BY <1>1, <1>2, <1>3 DEF IsLevels

\* A level less, and its loop if it is an array.
LEMMA LevelsPopped ==
    ASSUME NEW t, NEW cd \in Nodes, NEW ds \in Seq(Nodes), NEW rs \in Seq(Nat),
           LoopsHaveLevels(t, cd, ds, rs), Len(ds) > 0
    PROVE  LoopsHaveLevels(t, Head(ds), Tail(ds), IF IsArray(cd) THEN Tail(rs) ELSE rs)
<1> DEFINE n == Len(ds)
           under == Tail(ds)
           old == Head(ds)
<1>1. PICK levels : IsLevels(t, cd, ds, rs, levels)
    BY DEF LoopsHaveLevels
<1>2. /\ n \in Nat \ {0} /\ Len(rs) \in Nat /\ old = ds[1]
      /\ under \in Seq(Nodes) /\ Len(under) = n - 1
      /\ \A k \in 1 .. n - 1 : under[k] = ds[k + 1]
    BY PopProps
<1>3. \A l \in 1 .. n - 1 : NodeAt(old, under, l) = NodeAt(cd, ds, l)
    <2> SUFFICES ASSUME NEW l \in 1 .. n - 1 PROVE NodeAt(old, under, l) = NodeAt(cd, ds, l)
        OBVIOUS
    <2> HIDE DEF under, old
    <2>1. l # n /\ NodeAt(cd, ds, l) = ds[n - l]
        BY <1>2 DEF NodeAt
    <2>2. CASE l = n - 1
        <3>1. n - l = 1
            BY <1>2, <2>2
        <3>2. QED
            BY <1>2, <2>1, <2>2, <3>1 DEF NodeAt
    <2>3. CASE l # n - 1
        <3> DEFINE m == n - 1 - l
        <3>1. m \in 1 .. n - 1 /\ n - l = m + 1
            BY <1>2, <2>3
        <3>2. NodeAt(old, under, l) = under[m]
            BY <1>2, <2>3 DEF NodeAt
        <3> HIDE DEF m
        <3>3. QED
            BY <1>2, <2>1, <3>1, <3>2
    <2>4. QED
        BY <2>2, <2>3
<1>4. /\ levels \in [1 .. Len(rs) -> 1 .. n]
      /\ \A j, k \in 1 .. Len(rs) : j < k => levels[j] > levels[k]
      /\ \A l \in 1 .. n :
            IsArray(NodeAt(cd, ds, l)) <=> \E k \in 1 .. Len(rs) : levels[k] = l
      /\ SectionsMatch(t) => \A k \in 1 .. Len(rs) : levels[k] <= OpenAt(t, rs[k] + 1)
    BY <1>1 DEF IsLevels
<1>5. NodeAt(cd, ds, n) = cd
    BY DEF NodeAt
<1> HIDE DEF under, old
<1>6. CASE ~IsArray(cd)
    <2>1. \A k \in 1 .. Len(rs) : levels[k] \in 1 .. n - 1
        <3> SUFFICES ASSUME NEW k \in 1 .. Len(rs) PROVE levels[k] \in 1 .. n - 1
            OBVIOUS
        <3>1. levels[k] \in 1 .. n /\ n \in 1 .. n
            <4>1. levels[k] \in 1 .. n
                BY <1>4
            <4>2. n \in 1 .. n
                BY <1>2
            <4>3. QED
                BY <4>1, <4>2
        <3>2. levels[k] # n
            BY <1>4, <1>5, <1>6, <3>1
        <3>3. QED
            BY <1>2, <3>1, <3>2
    <2>2. levels \in [1 .. Len(rs) -> 1 .. Len(under)]
        BY <1>2, <1>4, <2>1
    <2>3. \A l \in 1 .. Len(under) :
              IsArray(NodeAt(old, under, l)) <=> \E k \in 1 .. Len(rs) : levels[k] = l
        <3>1. \A l \in 1 .. Len(under) : l \in 1 .. n /\ l \in 1 .. n - 1
            BY <1>2
        <3>2. QED
            BY <1>3, <1>4, <3>1
    <2>4. IsLevels(t, old, under, rs, levels)
        BY <1>4, <2>2, <2>3 DEF IsLevels
    <2>5. QED
        BY <1>6, <2>4 DEF LoopsHaveLevels, under, old
<1>7. CASE IsArray(cd)
    <2>1. Len(rs) > 0 /\ levels[1] = n
        BY <1>1, <1>2, <1>7, TopLevel
    <2> DEFINE outer == Tail(rs)
               less == [k \in 1 .. Len(rs) - 1 |-> levels[k + 1]]
    <2>2. /\ outer \in Seq(Nat) /\ Len(outer) = Len(rs) - 1
          /\ \A k \in 1 .. Len(rs) - 1 : outer[k] = rs[k + 1]
        BY <2>1, PopProps
    <2> HIDE DEF outer
    <2>3. \A k \in 1 .. Len(outer) : /\ k + 1 \in 1 .. Len(rs) /\ 1 \in 1 .. Len(rs) /\ 1 < k + 1
                                     /\ less[k] = levels[k + 1] /\ outer[k] = rs[k + 1]
        BY <1>2, <2>2
    <2>4. less \in [1 .. Len(outer) -> {less[k] : k \in 1 .. Len(outer)}]
        BY <2>2
    <2> HIDE DEF less
    <2>5. \A k \in 1 .. Len(outer) : less[k] \in 1 .. n - 1
        <3> SUFFICES ASSUME NEW k \in 1 .. Len(outer) PROVE less[k] \in 1 .. n - 1
            OBVIOUS
        <3>1. levels[k + 1] \in 1 .. n /\ levels[1] > levels[k + 1]
            BY <1>4, <2>3
        <3>2. QED
            BY <1>2, <2>1, <2>3, <3>1
    <2>6. less \in [1 .. Len(outer) -> 1 .. Len(under)]
        BY <1>2, <2>4, <2>5
    <2>7. ASSUME NEW j \in 1 .. Len(outer), NEW k \in 1 .. Len(outer), j < k
          PROVE  less[j] > less[k]
        <3>1. j + 1 < k + 1
            BY <2>7
        <3>2. QED
            BY <1>4, <2>3, <3>1
    <2>8. ASSUME NEW l \in 1 .. Len(under)
          PROVE  IsArray(NodeAt(old, under, l)) <=> \E k \in 1 .. Len(outer) : less[k] = l
        <3>1. l \in 1 .. n /\ l \in 1 .. n - 1 /\ l # n
            BY <1>2
        <3>2. ASSUME NEW k \in 1 .. Len(rs), levels[k] = l
              PROVE  \E i \in 1 .. Len(outer) : less[i] = l
            <4>1. k # 1
                BY <2>1, <3>1, <3>2
            <4>2. k - 1 \in 1 .. Len(outer) /\ (k - 1) + 1 = k
                BY <1>2, <2>2, <4>1
            <4>3. QED
                BY <2>3, <3>2, <4>2
        <3>3. QED
            BY <1>3, <1>4, <2>3, <3>1, <3>2
    <2>9. ASSUME SectionsMatch(t), NEW k \in 1 .. Len(outer)
          PROVE  less[k] <= OpenAt(t, outer[k] + 1)
        BY <1>4, <2>3, <2>9
    <2>10. IsLevels(t, old, under, outer, less)
        BY <2>6, <2>7, <2>8, <2>9 DEF IsLevels
    <2>11. QED
        BY <1>7, <2>10 DEF LoopsHaveLevels, under, old, outer
<1>8. QED
    BY <1>6, <1>7
-----------------------------------------------------------------------------
(***************************************************************************)
(* The steps.                                                              *)
(***************************************************************************)
\* What the invariant says of the running call.
LEMMA Here ==
    ASSUME IInv, Nests
    PROVE  /\ tpl \in TheTemplates /\ rule_node \in Nat \ {0}
           /\ rule_node \in 1 .. Len(tpl.rules) + 1 /\ Len(tpl.rules) \in Nat
           /\ curr_data \in Nodes /\ data_stack \in Seq(Nodes) /\ Len(data_stack) \in Nat
           /\ token_node_stack \in Seq(Nat) /\ rule_node_stack \in Seq(Nat)
           /\ Len(rule_node_stack) \in Nat /\ Len(token_node_stack) = Len(rule_node_stack)
           /\ callers \in Seq(GoodFrames)
           /\ OpenAt(tpl, rule_node) \in Int
           /\ SectionsMatch(tpl) => Len(data_stack) <= OpenAt(tpl, rule_node)
           /\ LoopsHaveLevels(tpl, curr_data, data_stack, rule_node_stack)
<1>1. /\ tpl \in TheTemplates /\ rule_node \in Nat \ {0}
      /\ curr_data \in Nodes /\ data_stack \in Seq(Nodes)
      /\ token_node_stack \in Seq(Nat) /\ rule_node_stack \in Seq(Nat)
      /\ Len(token_node_stack) = Len(rule_node_stack)
      /\ rule_node \in 1 .. Len(tpl.rules) + 1
    BY DEF IInv, LocalsOK, CallOK, InStep, LoopsInStep
<1>2. callers \in Seq(GoodFrames)
    BY DEF IInv, RestOK
<1>3. Len(tpl.rules) \in Nat
    BY <1>1 DEF TheTemplates, FitsTokens
<1>4. OpenAt(tpl, rule_node) \in Int
    BY <1>1, OpenNext
<1>5. Len(data_stack) \in Nat /\ Len(rule_node_stack) \in Nat
    BY <1>1
<1>6. QED
    BY <1>1, <1>2, <1>3, <1>4, <1>5 DEF Nests, CallNests

\* A rule of the template is handled.
LEMMA Handled ==
    ASSUME IInv, Nests, NEW rules, Handles(rules)
    PROVE  /\ Rule \in rules /\ rule_node \in 1 .. Len(tpl.rules)
           /\ OpenAt(tpl, rule_node + 1) = IF Rule = 6 THEN OpenAt(tpl, rule_node) + 1
                                           ELSE IF Rule = 7 THEN OpenAt(tpl, rule_node) - 1
                                           ELSE OpenAt(tpl, rule_node)
           /\ SectionsMatch(tpl) => OpenAt(tpl, rule_node + 1) >= 0
<1>1. rule_node \in 1 .. Len(tpl.rules) /\ rule_node + 1 \in 1 .. Len(tpl.rules) + 1
    BY Here DEF Handles
<1>2. QED
    BY <1>1, Here, OpenNext, NeverNegative DEF Handles, Rule

\* The suspended calls are the same.
LEMMA SameCallers ==
    ASSUME IInv, Nests, UNCHANGED callers,
           CallNests(tpl', rule_node', curr_data', data_stack', rule_node_stack')
    PROVE  Nests'
<1>1. \A k \in 1 .. Len(callers) : FrameNests(callers[k])
    BY DEF Nests
<1>2. QED
    BY <1>1 DEF Nests, FrameNests

\* The other rules that are passed leave contexts and loops alone.
LEMMA PassesNest ==
    ASSUME IInv, Nests, NEW rules, Handles(rules), 6 \notin rules, 7 \notin rules, NextRule,
           UNCHANGED <<tpl, curr_data, data_stack, rule_node_stack, callers>>
    PROVE  Nests'
<1>1. OpenAt(tpl, rule_node + 1) = OpenAt(tpl, rule_node)
    BY Handled
<1>2. CallNests(tpl', rule_node', curr_data', data_stack', rule_node_stack')
    BY <1>1, Here DEF CallNests, NextRule
<1>3. QED
    BY <1>2, SameCallers

\* A section pushes its context, or goes on with that of the hash or scalar in
\* which it stands.
LEMMA EntersNest ==
    ASSUME IInv, Nests, Handles({6}), EnterSection, curr_data' \in Nodes,
           \/ data_stack' = push(data_stack, curr_data)
           \/ UNCHANGED <<curr_data, data_stack>> /\ ~IsArray(curr_data)
    PROVE  Nests'
<1>1. /\ UNCHANGED <<tpl, callers>> /\ rule_node' = rule_node + 1
      /\ rule_node_stack' = IF IsArray(curr_data') THEN push(rule_node_stack, rule_node)
                                                   ELSE rule_node_stack
    BY DEF EnterSection, NextRule, calls
<1>2. OpenAt(tpl, rule_node + 1) = OpenAt(tpl, rule_node) + 1
    BY Handled
<1>3. CASE data_stack' = push(data_stack, curr_data)
    <2>1. Len(data_stack') = Len(data_stack) + 1
        BY <1>3, Here, PushProps
    <2>2. SectionsMatch(tpl) => Len(data_stack) + 1 <= OpenAt(tpl, rule_node + 1)
        BY <1>2, Here
    <2>3. rule_node \in Nat
        BY Here
    <2> DEFINE new == curr_data'
               inner == IF IsArray(new) THEN push(rule_node_stack, rule_node) ELSE rule_node_stack
    <2>4. LoopsHaveLevels(tpl, new, push(data_stack, curr_data), inner)
        <3> HIDE DEF new
        <3>1. new \in Nodes
            BY DEF new
        <3>2. QED
            BY <2>2, <2>3, <3>1, Here, LevelsPushed
    <2>5. rule_node_stack' = inner
        BY <1>1
    <2>6. CallNests(tpl', rule_node', curr_data', data_stack', rule_node_stack')
        BY <1>1, <1>3, <2>1, <2>2, <2>4, <2>5 DEF CallNests
    <2>7. QED
        BY <1>1, <2>6, SameCallers
<1>4. CASE UNCHANGED <<curr_data, data_stack>> /\ ~IsArray(curr_data)
    <2>1. rule_node_stack' = rule_node_stack
        BY <1>1, <1>4
    <2>2. CallNests(tpl', rule_node', curr_data', data_stack', rule_node_stack')
        BY <1>1, <1>2, <1>4, <2>1, Here DEF CallNests
    <2>3. QED
        BY <1>1, <2>2, SameCallers
<1>5. QED
    BY <1>3, <1>4

\* Each of the four ways into a section keeps the nesting.
LEMMA SectionsNest ==
    ASSUME IInv, Nests, SectionInHash \/ SectionUndefined \/ SectionInArray \/ SectionInScalar
    PROVE  Nests'
<1>1. curr_data \in Nodes /\ index \in Int
    BY DEF IInv, LocalsOK, CallOK
<1>2. CASE SectionInHash
    <2>1. Get(curr_data, Key) \in Nodes
        BY <1>1, <1>2, Gets DEF SectionInHash
    <2>2. curr_data' = Get(curr_data, Key) \/ curr_data' = curr_data
        BY <1>2 DEF SectionInHash
    <2>3. curr_data' \in Nodes
        BY <1>1, <2>1, <2>2
    <2>4. QED
        BY <1>2, <2>3, EntersNest DEF SectionInHash, PushContext
<1>3. CASE SectionUndefined
    <2>1. ~IsArray(curr_data)
        BY <1>3 DEF SectionUndefined, IsHash, IsArray
    <2>2. QED
        BY <1>1, <1>3, <2>1, EntersNest DEF SectionUndefined
<1>4. CASE SectionInArray
    <2> DEFINE e == Slot(curr_data, index)
    <2>1. e \in Nodes \cup {NULL}
        BY <1>1, <1>4, Slots DEF SectionInArray
    <2>2. curr_data' \in Nodes
        BY <1>1, <1>4, <2>1, Gets DEF SectionInArray
    <2>3. QED
        BY <1>4, <2>2, EntersNest DEF SectionInArray, PushContext
<1>5. CASE SectionInScalar
    BY <1>1, <1>5, EntersNest DEF SectionInScalar
<1>6. QED
    BY <1>2, <1>3, <1>4, <1>5

\* A closing tag goes back to where no more was on the stack, or pops what its
\* section can have pushed; where none is on the stack none is popped.
LEMMA ClosesNest ==
    ASSUME IInv, Nests, CloseRepeat \/ CloseLoop \/ CloseContext
    PROVE  Nests'
<1>1. /\ Handles({7}) /\ UNCHANGED <<tpl, callers>>
      /\ InLoop <=> Len(rule_node_stack) > 0 /\ IsArray(curr_data)
    <2>1. Len(token_node_stack) = Len(rule_node_stack)
        BY Here
    <2>2. QED
        BY <2>1 DEF CloseRepeat, CloseLoop, CloseContext, calls, InLoop
<1>2. /\ OpenAt(tpl, rule_node + 1) = OpenAt(tpl, rule_node) - 1
      /\ SectionsMatch(tpl) => OpenAt(tpl, rule_node + 1) >= 0
    BY <1>1, Handled
<1>3. IsArray(curr_data) =>
          /\ Len(data_stack) > 0 <=> Len(rule_node_stack) > 0
          /\ Len(rule_node_stack) > 0 /\ SectionsMatch(tpl)
                 => Len(data_stack) <= OpenAt(tpl, Head(rule_node_stack) + 1)
    BY Here, LevelsTop
<1>4. CASE CloseRepeat
    <2>1. /\ rule_node' = Head(rule_node_stack) + 1 /\ InLoop
          /\ UNCHANGED <<curr_data, data_stack, rule_node_stack>>
        BY <1>4 DEF CloseRepeat, loops
    <2>2. CallNests(tpl', rule_node', curr_data', data_stack', rule_node_stack')
        BY <1>1, <1>3, <2>1, Here DEF CallNests
    <2>3. QED
        BY <1>1, <2>2, SameCallers
<1>5. CASE ~CloseRepeat
    <2>1. /\ rule_node' = rule_node + 1 /\ PopContext
          /\ IF InLoop THEN rule_node_stack' = Tail(rule_node_stack) ELSE UNCHANGED rule_node_stack
        BY <1>5 DEF CloseLoop, CloseContext, ClosedContext, PopLoop, NextRule, loops
    <2>2. CASE Len(data_stack) > 0
        <3>1. curr_data' = Head(data_stack) /\ data_stack' = Tail(data_stack)
            BY <2>1, <2>2 DEF PopContext
        <3>2. Len(data_stack') = Len(data_stack) - 1
            BY <2>2, <3>1, Here, PopProps
        <3>3. rule_node_stack' = IF IsArray(curr_data) THEN Tail(rule_node_stack)
                                                       ELSE rule_node_stack
            BY <1>1, <1>3, <2>1, <2>2
        <3>4. LoopsHaveLevels(tpl, Head(data_stack), Tail(data_stack),
                              IF IsArray(curr_data) THEN Tail(rule_node_stack) ELSE rule_node_stack)
            BY <2>2, Here, LevelsPopped
        <3>5. CallNests(tpl', rule_node', curr_data', data_stack', rule_node_stack')
            BY <1>1, <1>2, <2>1, <3>1, <3>2, <3>3, <3>4, Here DEF CallNests
        <3>6. QED
            BY <1>1, <3>5, SameCallers
    <2>3. CASE ~(Len(data_stack) > 0)
        <3>1. UNCHANGED <<curr_data, data_stack>> /\ Len(data_stack) = 0
            BY <2>1, <2>3, Here DEF PopContext
        <3>2. UNCHANGED rule_node_stack
            BY <1>1, <1>3, <2>1, <2>3
        <3>3. CallNests(tpl', rule_node', curr_data', data_stack', rule_node_stack')
            BY <1>1, <1>2, <2>1, <3>1, <3>2, Here DEF CallNests
        <3>4. QED
            BY <1>1, <3>3, SameCallers
    <2>4. QED
        BY <2>2, <2>3
<1>6. QED
    BY <1>4, <1>5

\* A call begins with nothing on its stacks.
LEMMA FirstNests ==
    ASSUME NEW t, NEW cd
    PROVE  CallNests(t, 1, cd, <<>>, <<>>)
<1> DEFINE none == [k \in 1 .. 0 |-> 0]
<1>1. Len(<<>>) = 0 /\ 1 .. 0 = {}
    OBVIOUS
<1>2. none \in [1 .. 0 -> 1 .. 0]
    BY <1>1
<1> HIDE DEF none
<1>3. IsLevels(t, cd, <<>>, <<>>, none)
    BY <1>1, <1>2 DEF IsLevels
<1>4. QED
    BY <1>1, <1>3, OpenFirst DEF CallNests, LoopsHaveLevels

\* A partial's call begins with nothing, its caller goes on where it stood.
LEMMA PartialNests == IInv /\ Nests /\ PartialRendered => Nests'
<1> SUFFICES ASSUME IInv, Nests, PartialRendered PROVE Nests'
    OBVIOUS
<1>1. /\ callers' = push(callers, Resumption) /\ Handles({10})
      /\ rule_node' = 1 /\ data_stack' = <<>> /\ rule_node_stack' = <<>>
    BY DEF PartialRendered
<1>2. CallNests(tpl', rule_node', curr_data', data_stack', rule_node_stack')
    BY <1>1, FirstNests
<1>3. FrameNests(Resumption)
    <2>1. OpenAt(tpl, rule_node + 1) = OpenAt(tpl, rule_node)
        BY <1>1, Handled
    <2>2. QED
        BY <2>1, Here DEF FrameNests, CallNests, Resumption
<1>4. ASSUME NEW k \in 1 .. Len(callers') PROVE FrameNests(callers'[k])
    <2> DEFINE frames == callers \* those suspended before
               top == Resumption
    <2>1. frames \in Seq({top} \cup {frames[i] : i \in 1 .. Len(frames)}) /\ Len(frames) \in Nat
        <3>1. callers \in Seq(GoodFrames)
            BY Here
        <3>2. QED
            BY <3>1
    <2>2. callers' = push(frames, top)
        BY <1>1
    <2> HIDE DEF frames, top
    <2>3. /\ Len(callers') = Len(frames) + 1 /\ callers'[1] = top
          /\ \A i \in 1 .. Len(frames) : callers'[i + 1] = frames[i]
        <3> DEFINE all == {top} \cup {frames[i] : i \in 1 .. Len(frames)}
        <3>1. top \in all /\ frames \in Seq(all)
            BY <2>1
        <3> HIDE DEF all
        <3>2. Len(push(frames, top)) = Len(frames) + 1 /\ push(frames, top)[1] = top
            BY <3>1, PushProps
        <3>3. \A i \in 1 .. Len(frames) : push(frames, top)[i + 1] = frames[i]
            BY <3>1, PushBelow
        <3>4. QED
            BY <2>2, <3>2, <3>3
    <2>4. CASE k = 1
        BY <1>3, <2>3, <2>4 DEF top
    <2>5. CASE k # 1
        <3>1. k - 1 \in 1 .. Len(frames) /\ (k - 1) + 1 = k
            BY <2>1, <2>3, <2>5
        <3>2. callers'[k] = frames[k - 1]
            BY <2>3, <3>1
        <3>3. QED
            BY <3>1, <3>2 DEF Nests, frames
    <2>6. QED
        BY <2>4, <2>5
<1>5. QED
    BY <1>2, <1>4 DEF Nests, FrameNests

\* The caller goes on with what it had.
LEMMA ReturnNests == IInv /\ Nests /\ ReturnToCaller => Nests'
<1> SUFFICES ASSUME IInv, Nests, ReturnToCaller PROVE Nests'
    OBVIOUS
<1>1. /\ callers \in Seq(GoodFrames) /\ Len(callers) > 0
      /\ tpl' = Head(callers).tpl /\ rule_node' = Head(callers).rule_node
      /\ curr_data' = Head(callers).curr_data /\ data_stack' = Head(callers).data_stack
      /\ rule_node_stack' = Head(callers).rule_node_stack /\ callers' = Tail(callers)
    BY Here DEF ReturnToCaller
<1>2. /\ Head(callers) = callers[1] /\ 1 \in 1 .. Len(callers) /\ Len(callers) \in Nat
      /\ Len(callers') = Len(callers) - 1
      /\ \A k \in 1 .. Len(callers) - 1 : callers'[k] = callers[k + 1]
    BY <1>1, PopProps
<1>3. CallNests(tpl', rule_node', curr_data', data_stack', rule_node_stack')
    BY <1>1, <1>2 DEF Nests, FrameNests
<1>4. ASSUME NEW k \in 1 .. Len(callers') PROVE FrameNests(callers'[k])
    <2>1. k + 1 \in 1 .. Len(callers) /\ callers'[k] = callers[k + 1]
        BY <1>2
    <2>2. QED
        BY <2>1 DEF Nests
<1>5. QED
    BY <1>3, <1>4 DEF Nests, FrameNests
-----------------------------------------------------------------------------
\* The first call of the command begins with nothing.
LEMMA InitNests == Init => Nests
<1> SUFFICES ASSUME Init PROVE Nests
    OBVIOUS
<1>1. CallNests(tpl, rule_node, curr_data, data_stack, rule_node_stack)
    BY FirstNests DEF Init
<1>2. Len(callers) = 0
    BY DEF Init
<1>3. QED
    BY <1>1, <1>2 DEF Nests

\* Each step keeps the nesting of the running call and of those suspended.
LEMMA NextNests == IInv /\ Nests /\ [Next]_vars => Nests'
<1> SUFFICES ASSUME IInv, Nests, [Next]_vars PROVE Nests'
    OBVIOUS
<1>1. CASE SkipRule
    BY <1>1, PassesNest DEF SkipRule, context, loops, calls
<1>2. CASE TextRule
    BY <1>2, PassesNest DEF TextRule, context, loops, calls
<1>3. CASE ValueTag
    BY <1>3, PassesNest DEF ValueTag, context, loops, calls
<1>4. CASE PartialSkipped
    BY <1>4, PassesNest DEF PartialSkipped, loops, calls
<1>5. CASE ValueCrash \/ PartialAbort \/ PartialCrash \/ GarbageCrash \/ Finish \/ Stopped
           \/ UNCHANGED vars
    <2>1. UNCHANGED <<tpl, rule_node, curr_data, data_stack, rule_node_stack, callers>>
        BY <1>5 DEF ValueCrash, PartialAbort, PartialCrash, GarbageCrash, Finish, Stopped,
                    vars, context, loops, calls
    <2>2. CallNests(tpl', rule_node', curr_data', data_stack', rule_node_stack')
        BY <2>1 DEF Nests
    <2>3. QED
        BY <2>1, <2>2, SameCallers
<1>6. QED
    BY <1>1, <1>2, <1>3, <1>4, <1>5, SectionsNest, ClosesNest, PartialNests, ReturnNests DEF Next

\* Only the end of a call destroys, and nothing is left on the stack there.
LEMMA NothingLeft ==
    ASSUME IInv, Nests, [Next]_vars, SectionsMatch(tpl)
    PROVE  destroyed' = destroyed
<1>1. CASE Finish \/ ReturnToCaller
    <2>1. rule_node > Len(tpl.rules) /\ destroyed' = destroyed \o data_stack
        BY <1>1 DEF Finish, ReturnToCaller, RulesEnd, Cleaned
    <2>2. rule_node = Len(tpl.rules) + 1
        <3>1. rule_node \in 1 .. Len(tpl.rules) + 1 /\ Len(tpl.rules) \in Nat
            BY Here
        <3>2. QED
            BY <2>1, <3>1
    <2>3. Len(data_stack) <= 0
        BY <2>2, Here DEF SectionsMatch
    <2>4. data_stack = <<>>
        BY <2>3, Here
    <2>5. destroyed \in Seq(Nodes)
        BY DEF IInv, RestOK
    <2>6. QED
        BY <2>1, <2>4, <2>5
<1>2. CASE ~(Finish \/ ReturnToCaller)
    BY <1>2 DEF Next, SkipRule, TextRule, SectionInHash, SectionUndefined, SectionInArray,
                SectionInScalar, EnterSection, CloseRepeat, CloseLoop, CloseContext, ValueTag,
                ValueCrash, PartialSkipped, PartialRendered, PartialAbort, PartialCrash,
                GarbageCrash, Stopped, vars, calls
<1>3. QED
    BY <1>1, <1>2

(***************************************************************************)
(* Whatever the data, and however its sections are entered, repeated and   *)
(* closed: a call of _ctache_render destroys data only if the sections of  *)
(* its template do not match (lib/render.c:551).                           *)
(***************************************************************************)
THEOREM KeepsData == Spec => DataIsKept
<1>1. Spec => [](IInv /\ Nests)
    BY InitOK, NextOK, InitNests, NextNests, PTL DEF Spec
<1>2. IInv /\ Nests /\ [Next]_vars => [destroyed' # destroyed => ~SectionsMatch(tpl)]_vars
    BY NothingLeft
<1>3. QED
    BY <1>1, <1>2, PTL DEF Spec, DataIsKept
=============================================================================
