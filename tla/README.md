# portcosmo: models, checks and proofs

`portcosmo` is a gcc plugin. Headers of Cosmopolitan Libc define system constants as

    extern const int SIGABRT;
    #define SIGABRT ACTUALLY(SIGABRT)

which is not a constant where C wants one. The plugin redefines `ACTUALLY(X)` as the
magic number `__tmpcosmo_X`, records where such macros are used, lets gcc parse, finds the
magic numbers in the syntax tree, and puts the variable `X` back: in expressions, in
initialisers (through a constructor function or a run-time guard) and in `switch`
statements (rewritten as a chain of `if`s). What it records and cannot find again is an
error.

What makes this hard to get right is that recording and substituting never see the same
thing. A record is a line and a name, written while the preprocessor runs. A constant is a
number in a tree, found later, by lines that are often only approximate. The two are matched
one by one, in gcc's order of callbacks, and the only safety net is that a record which is
left over is an error. The properties here are about that net, about what slips through
it, and about the code that is emitted: it runs in another program, at another time.

## Components

| part | source | state | operations | modelled in |
|---|---|---|---|---|
| plugin entry | `src/main.cc` | `plugin_context` | `plugin_init`, `handle_finish` | `Portcosmo` |
| macro hooks | `src/macro.cc` | `cpp_callbacks.define`, `.used`; the macro `ACTUALLY` | `handle_start_tu`, `check_macro_define`, `check_macro_use`, `handle_finish_tu` | `Portcosmo` |
| record list | `src/subcontext.cc` | nodes in order; `start`, `end`, `count` | add, remove, get by line, get by range, bounds tests, `check_empty`, `clear`, delete | `SubuList` (value), `SubuHeap` (pointers) |
| context | `src/subcontext.cc` | `active`, `mods`, `prev`, three counters | `construct_context`, `check_context_clear`, `cleanup_context` | `Portcosmo`, `prev` in `AstWalk` |
| matching | `src/replace_int.cc`, `src/utils.cc` | none | `arg_should_be_modded`, `check_magic_equal` | `Replace`; `Portcosmo`, abstractly |
| magic numbers | `tmpconst.h` | constants | | `Replace` |
| walk of functions | `src/ast.cc` | the tree, `prev` | `handle_pre_genericize`, `check_usage`, `check_expr` | `AstWalk`; `Portcosmo`, in any order |
| global initialisers | `src/initstruct/global.cc`, `common.cc` | a constructor function per declaration | `handle_decl`, `update_global_decls`, `set_values_based_on_ctor` | `Portcosmo`; the search: `Initializer`; the emitted code: `StaticInit` |
| local initialisers | `src/initstruct/local.cc` | a guard variable per static | `build_modded_declaration`, `..._int_declaration`, `modify_local_struct_ctor` | `Portcosmo`, `AstWalk`; the search: `Initializer`; the emitted code: `StaticInit` |
| switches | `src/ifswitch/ifswitch.cc` | labels `__tmpcosmo_N_...` | `count_mods_in_switch`, `modded_case_label`, `build_modded_switch_stmt` | `Portcosmo`; the emitted code: `IfSwitch` |
| debug output | `src/utils.cc`, `utils.h` | | `DEBUGF`, `INFORM` | no |
| examples, build | `examples/`, `Makefile` | | | no |

Source paths in the comments of the modules and in `PROJECT.json` start at the root of the
checkout, `src/`, so that the plugin's own directory is `src/src/`.

How they interact: everything runs in one thread, inside gcc. gcc calls the hooks of the
preprocessor while it reads tokens, `handle_decl` (`PLUGIN_FINISH_DECL`) after a
declaration, `handle_pre_genericize` after a function body. All share `plugin_context`. The
tokens after a declaration may already have been preprocessed when its callback comes, and
constants in places no callback looks at (an enumerator, an array size, a type) leave their
records to the next callback. `PLUGIN_FINISH_UNIT` ends the unit and `PLUGIN_FINISH` the
compiler; after errors only the second comes.

The hard behaviours are thus the order of callbacks and of what they do to the shared list,
the flag `active` that seven places write, the caches in the list, partial failures (a
check reports some records and drops the rest), sources that break the assumption "one use,
one constant", and other clients of the same hooks. The hazards, line by line, are in
`PROJECT.json`.

## Modules

The compiler's side, from the outside in:

* **`SubuList`**: the list as a value, with one operator per function of `subcontext.cc`.
  `Recount` computes the cached fields, as every mutation does in the code. A function that
  returns a node through a pointer is a set of positions, empty for "not found".
* **`RecordList`**, **`SubuHeap`**: the same list in memory. `SubuHeap` has addresses, a
  heap, and one step per iteration of each loop over pointers; `RecordList` has the
  operators of `SubuList` as single steps. `SubuHeap` implements `RecordList`, which is why
  the other modules may use the value.
* **`MacroLedger`**: the abstract specification of the whole. A use is unseen, pending,
  substituted, reported or dropped; uses are dropped only by a step that reports one;
  nothing is pending when the compilation is finished.
* **`Portcosmo`**: the plugin. One action per callback, and where a callback loops over the
  tree, one per step of the loop, with `phase` telling which callback is running (`"decl"`:
  the loop over an initialiser in `handle_decl`; `"walk"`: `walk_tree`; `"retry"`: the loop
  over an initialiser of a local that the walk had missed). It implements `MacroLedger`.

These modules look closer at what `Portcosmo` leaves open:

* **`FunctionBody`**: a function body as gcc hands it over, and which bodies are plain.
* **`AstWalk`**: the walk over one function, one node at a time, with `prev`, the retry, the
  20-line test and the recursion of `check_expr`. `Portcosmo` may find any constant near a
  record; `AstWalk` finds the ones the code would.
* **`Replace`**: which constant is taken for which macro, after gcc has folded and converted
  it, over all the numbers of `tmpconst.h`: operators only.
* **`FirstMatch`**: the abstract specification of searching an initialiser: while a record is
  left that belongs to it, the first constant that agrees with any record is replaced, once.
  It knows no nesting and no order of steps.
* **`Initializer`**: the search of nested constructors step by step, with its calls,
  restarts and bound. It implements `FirstMatch`; both extend `Replace`.

The compiled program's side:

* **`SwitchSem`**, **`IfSwitch`**: what a C switch means, and what the statements that
  replace it do.
* **`StaticVar`**, **`StaticInit`**: what C promises of initialised static variables, and
  what hidden constructors and guarded assignments do.

`MC...` modules hold the instances for TLC, `...Proofs` modules the theorems.

### State and actions against the code

`Portcosmo`:

| variable | in the code |
|---|---|
| `active`, `mods`, `switchcount`, `initcount`, `subcount` | the fields of `SubContext` |
| `define`, `used` | the two fields of `cpp_callbacks`, `"ours"` for the plugin's functions, `"other"` for somebody else's |
| `actually` | what the macro `ACTUALLY` is: not the plugin's yet, `__tmpcosmo_ ## X`, or `X` |
| `tree` | the constants of the declaration or function being parsed ("sites") |
| `left` | the constants of finished ones that were not substituted |
| `open` | rewritten switches whose inner walk (`ast.cc:176`) has not returned |
| `bound` | the bound of the retry in progress |
| `kept` | static integers replaced from their block, whose old declaration, with the magic number, the walk has still to visit |
| `recorded`, `done`, `reported`, `dropped`, `given` | history: not in the program |

A site has an origin (`use`, `macro`), and a reading: `hit` is the macro whose magic number
it equals, up to sign and complement. `hit = NULL` is a constant the plugin does not
recognise, because it was folded with others (`SIGABRT+42`) or is where no callback looks.
`arg_should_be_modded` is therefore `s.hit = node.name`. `shape` distinguishes the number
itself, `-X` and `~X`, and an unfolded conversion of the variable, because
`check_magic_equal` accepts the first only and initialisers look at integer constants only.

The source is nondeterministic: any number of definitions, uses (`MacroUse`, at most
`MaxUses` together with colliding literals) at any location, each leaving 0, 1 or several
constants; declarations and functions end at any time. Locations are compared and never
produced, so any order of them is possible (lines restart in headers, and a definition's
constants may lie on another line than the use).

Which expressions hold which sites is left open too: `CheckExpr(s, loc, finish)` is
`check_expr` finding `s` from *some* expression at `loc` to `finish`. This allows more than
the code does, so that the safety results hold for every order of the walk. The same goes
for a step of `check_expr` or of a switch after `active` has become 0: the code tests it
once per visited node, and the model does not test it in the steps that come after that
test.

`PLUGIN_FINISH` may come while parsing, without `PLUGIN_FINISH_UNIT`.

`AstWalk`: a function is the sequence of its nodes in the order in which `walk_tree` visits
them. That order is not the source's, and it matters: the initialisers of a block's
variables are visited with the block, before its statements, and the condition of a `do`
loop before its body. A visit begins with the test of `ctx->prev` (`NoneMissed` or one of
the `Retry...` actions, `ast.cc:143-165`) and goes on with `CheckUsage`; `Skip` is the early
return. `step` tells how far it is. `calls` is the stack of the calls of `check_expr`: for
which node, which operand its loop is at, and whether something was found. `ExprLeaf`
replaces a constant, `ExprCall` calls for an operand, `ExprPass` goes on to the next one,
`ExprEnd` and `ExprDecl` return. When a call has found something, its caller starts again
with its first operand, but for a block, which goes on (`Resumed`). `IntDeclaration` is
`build_modded_int_declaration`, for its two callers.

`listed` are the declarations whose place in the tree has been overwritten by a statement
list: a pointer to such a place is not to a declaration any more. A list is no expression
(`EXPR_P`), so that a loop over statements skips it; but it begins with the old declaration,
which the walk visits unless it has done so before. `crashed` stands for a null or wrong tree
that is looked into.

`FunctionBody`: `Plain` says which bodies the plugin is meant for. The walk goes by lines, so
that this is about how uses and nodes are laid out. `from` is not in the program: it says
which of the recorded uses the source has in each operand and initial value of a node
(`Holds`), while the program has only the numbers and lines. In a plain body every use has
left one constant, in an expression, a declaration or a block that is all on one line; a visit
of that node looks at all its uses, and first at them (`InReach`); a declaration whose uses
are on later lines is followed by a node behind these and before all others (`Due`), which
is what the retry assumes; a declaration without an initialiser has no use on its line, and one
that is retried can be (no `const`, no static aggregate without a macro). Only `Loud` is claimed
of other bodies. Not all of them go wrong: in a block that is all on one line and has a use,
`Plain` allows expressions, blocks and integers only, and so leaves out a control statement
or an aggregate. A macro that is a statement by itself is left out because `check_expr` passes
it over (`ast.cc:44`): its record is left, an error.

`Initializer`: an initialiser is the sequence of its elements, nested constructors followed by
their own; each knows the constructor it is in (`up`) and its last element (`last`). `in` is
the constructor of the call that runs, `at` the element its `FOR_EACH_CONSTRUCTOR_ELT` looks
at; no stack is needed, because a call goes on behind the constructor it called for. An element
is passed over, substituted, or called for (`PassOver`, `Substitute`, `Call`), `Return` ends a
call, and `Round` is the test of the `while` loop. `local` tells the two functions of the code
apart, which differ in where the loop starts again (`Again`), in when they stop after a nested
constructor (`Stop`), and in what becomes of the element (`Overwritten`). The constants of an
initialiser (`Cst`, in `Replace`) are born as a macro's number, folded with an operator and
converted to the type of the element (`Folded`); `Kind` is what `arg_should_be_modded` makes
of the result, tried against a record.

`IfSwitch`: a body is a sequence of labels, statements and breaks; a break has a depth: in
the switch's own list, in a block of it, or deeper. `Rewrite` is all of
`build_modded_switch_stmt`; `Test`, `Pass` and `Leave` run its result.
Control in a body only goes forward, so that what nested statements are does not matter.

`StaticInit`: the emitted code runs statement by statement (`Test`, `SetChk`, `Assign`), in
each thread, among the reads, writes, calls and constructors of the program. `sets` counts
the assignments of the emitted code, for the refinement mapping and `RunsOnce`. `jumps` is
chosen once: whether this program enters the block behind the declaration at times. C
initialises the variable all the same; the emitted code does not, so that only the program
without jumps is mapped to `StaticVar`.

`SubuHeap`: an address is free or holds a node. `fault` notes that a pointer to no node was
followed or freed. `Linked(a, s)` says that the pointers lead from `a` through the nodes of
`s` to `NULL`; the list's value is that of the one such sequence (`Chain`), if there is one.

## Runs

The properties of each run are in `PROJECT.json`, with a sentence on what it shows.

| run | question | bounds | distinct states |
|---|---|---|---|
| `clean` | `RecordingOn`, `Sound`, `Settles` on clean sources | 2 macros, 2 uses, 3 locations, constants plain and unfolded, definitions exact and unrelated | 298k |
| `wild` | `Portcosmo` implements `MacroLedger`; `TypeOK`, `Accounting`, `CountersAgree`, `FilterComplete`, `HooksRestored` on all sources | 2 macros, 2 uses with 0 or 2 constants each, plain and negated, any reading, all quirks, hooks free or taken, C and assembler | 1.1M |
| `heap` | `SubuHeap` implements `RecordList`; `NoFault`, `NoLeak`, `LoopsEnd` | 3 addresses, 3 records, 3 bounds for a check | 36k |
| `walk` | `AllFound`, `NoCrash`, `PrevIsDecl`, `RetryOrder` on plain functions, `Loud` on all but those of `static_twice` | 3 statements and a return, of 29 kinds (6 not plain); 2 macros | 683k |
| `initializers` | `Initializer` implements `FirstMatch`; `Exhausted`, `OwnRecord`, `Recognised` | 3 elements, each a constant, `-` a constant, something else, a constructor of up to two different constants, or one nested in another; 1 or 2 records on 3 lines in any order, 2 bounds, 3 callers; and 4 constants of any macro but the baud rates, with 3 operators in 6 types, and a record of every macro in two orders | 1.7M |
| `switches` | `IfSwitch` implements `SwitchSem` | all bodies up to 4 items: two macros, a case, a range, default, statements, breaks of two depths | 33k |
| `statics` | `StaticInit` implements `StaticVar`; `RunsOnce`, `SetBeforeUse` | 1 thread, a global, a static of two constants, constructors of priority 101 and none, with and without jumps | 2.0k |
| `taken_hooks`, `two_copies`, `deep_breaks`, `designated`, `static_twice` | the findings below | | |

Why the bounds are enough to be interesting: two records are what it takes to remove the
wrong one, to have one before and one after a bound, to report one and drop the other, and
to use one constant up for another's record. Three locations give two lines and two columns of a line, or a
location without a column. Two macros are needed for a wrong variable. The theorems then
cover every number of uses, macros and locations.

A list of three nodes has a first, a middle and a last to remove, and memory that is used
again. Three statements are a declaration that is missed, one that follows it, and one
before or between them with a record of its own; a gap of 19 lines is the last the code
accepts. A run of four items has two labels and default in any order, fallthrough and a
break. In `switches` the macros are 8 and 9, and at run time 1 and 3, so that one equals
another label and the other lies in a range. TLC computes with 32 bits: `initializers` has 26 for
`int` and 29 for `long`, where the numbers need 25, and a `short` as it is.

* `RecordingOn`: `active` and the hook stay on, from the first definition that mentions
  `ACTUALLY` until an error. It breaks if one check sets `active` to its error count.
* `Sound`: the end-to-end claim. A compilation that succeeds leaves no magic number of a
  macro behind and has put the right variable in each place. It holds because records and
  constants stay equal in number for each macro, and a leftover record is an error. It
  holds for `CleanSource`: each use leaves at most one constant, no value is mistaken for
  another macro's, definitions are followed by ` ACTUALLY(`, the hooks are free, and no
  quirk happens. Quirks are what the plugin gets wrong without an error in sources that
  look clean: a static integer in a block that is visited again while a record of another
  use of its macro is in reach (`"static_again"`), one that is alone in its block
  (`"block_static"`), and locations that have lost their column (`"columns_lost"`).
  `taken_hooks`, `two_copies` and the limits below
  drop one each, and `static_twice` is a function that needs the first quirk.
  Exceptions the repository's README documents (a literal equal to a magic number) are not findings.
* `Accounting`: each record is pending, or used up by exactly one substitution, or
  reported, or dropped with another's report. This one needs no clean source.
* `CountersAgree`: the final notes count what was done, although `handle_decl` counts
  before it looks and the walk counts after, and labels of switches are not counted.
* `FilterComplete`: `check_usage` looks for a record only if a test on the cached bounds
  passes. The test never hides one.
* `HooksRestored`: other clients keep their hooks, the plugin gives up its own.
* `ImplementsLedger`: every step is a step of `MacroLedger` or a stutter.
* `Settles`: every recorded use leaves the list.
* `Loud`: the net as the walk sees it: no error means no constant is left. It has to hold
  for functions in which records are not found, too, though not for one with a static
  variable in a block that is alone there or shares its macro on the line. It rests on each substitution removing
  one record and one constant of the same macro, and on the check at the end, which looks at
  all that are left. A static variable that is visited a second time breaks the first of
  these (`static_twice`).
* `AllFound`, `RetryOrder`, `PrevIsDecl`, `NoCrash`: on plain functions the retry finds what
  the visits missed, tries only declarations before the record, and never what has been
  overwritten. The limits below are what the others do. TLC also checks that the functions it
  builds from statements the plugin is meant for satisfy `Plain` (`PlainFunctions`).
* `OwnRecord`: no two numbers are confused under conversion, negation or complement: all
  numbers are even, so that `~` cannot hit another one, and all but `AF_INET6` and the baud
  rates are negative. Baud rates are their negations (`designated`).
* `Recognised`: and none is missed in an element that is signed and as wide as an `int`. In
  a narrower or unsigned one the number may have been cut off; then its record stays.
* `ImplementsFirstMatch`, `Exhausted`: restarting and recursion with one shared list neither
  skip nor repeat an element, whichever element a nested call stops at. Once no record before
  the bound is left, what is still replaced depends on the nesting, and `FirstMatch` allows
  any order; `Exhausted` holds for all bounds.
* `ImplementsSwitch`, `ImplementsStatic`: the program cannot tell the emitted code from what
  it replaces.
* `NoFault`, `NoLeak`, `LoopsEnd`, `ImplementsList`: the loops over pointers.

### Fairness

`FairSpec` assumes weak fairness of `Next` (the compiler does not stop in the middle) and
strong fairness of the end of the unit (the source is finite, so that the parser, which
returns to phase `"parse"` again and again, at some time reaches its end). Nothing is
assumed of single steps of the walk. Each step of the model's loops removes a record or a
site, as each round of the code's does, so that `Settles` says little about single loops; it
says that a switch that was rewritten is not walked for ever, and that every record is
settled at the latest when the compiler ends.

`IfSwitch` and `SwitchSem` assume weak fairness of `Next`: statements end. The refinement
includes it, and so says that control gets behind the switch. `SubuHeap` assumes weak
fairness of the steps inside a function (a call that was made runs on), not of calls;
`LoopsEnd` rests on it. Of the others only safety is checked.

`CHECK_DEADLOCK` is on everywhere: where a model ends (`"end"` and `"refused"` of
`Portcosmo`, a walk that is over or crashed, a search that is done, a switch that was left,
a list that was deleted), `Terminated` stutters.

## Findings

Each is a run that ends in a counterexample.

1. `taken_hooks`: the plugin takes the `define` hook only if it is free (gcc has it under
   `-g3`), but `ACTUALLY` is redefined before. In the run the `used` hook is free, and only
   `check_macro_define`, which never runs, would take it. Then all uses become magic numbers and nothing is
   recorded (`macro.cc:87-91` against `README.md:52`).
2. `two_copies`: the argument of a function-like macro that mentions its parameter twice
   is expanded once. One record, two constants: the second stays magic, without an error
   (`macro.cc:48` against `README.md:63-66`).
3. `deep_breaks`: a `break` inside an `if` is not rewritten and leaves the loop around the
   former switch (`ifswitch.cc:163-178` against `ifswitch.cc:216-218`).
4. `designated`: `{.b = EUNATCH, .a = B9600}` becomes `.a = -EUNATCH, .b = -B9600`: each of
   the 28 baud rates is the negation of another number, `-X` is looked for
   (`replace_int.cc:44`), and elements are tried in the order of the type. No error.
5. `static_twice`: in `{ static int v = X; f(); } g(X);` on one line the block's visit
   replaces `v`. The list that takes its place begins with the same declaration, which the
   walk visits next; its initialiser is still the magic number (`local.cc:43` changes that of
   automatic variables only), and the second record is used up for it. `g` keeps the magic
   number, without an error (`local.cc:97` against `README.md:63-66` and `README.md:74-75`).

### Limits

More cases that a property leaves out by a condition it names. Each shows as a
counterexample once the condition is dropped, as said in brackets.

* `{ static int v = X; }` on a line of its own is a block with no statement list.
  `check_expr` gives the address of its local `body`, into which the new statements go; the
  record is removed, the tree is not changed (`ast.cc:38-39`). [`Clean.cfg` with
  `Quirks = {"block_static"}`: `Sound`. `InPlace` in `AstWalk`]
* Finding 5 as the whole compilation sees it: the record of one use goes for the declaration
  of another, which was replaced already. [`Clean.cfg` with `Quirks = {"static_again"}`:
  `Sound`]
* Column 0 is taken for an `#ifdef`, but also is the column of every location once gcc has
  run out of column numbers (`macro.cc:26`). [`Clean.cfg` with `Quirks = {"columns_lost"}`:
  `Sound`]
* `#define X_SUFFIX ACTUALLY(X)` passes the test for "EXACTLY of the form `#define X
  ACTUALLY(X)`" (`macro.cc:43` against the comment at `macro.cc:28`). [`Forms = {"longer"}`:
  uses are recorded]
* `int i, j = X;` or `{ int a = X; int b = 5; }` on a line make `check_expr` pass a null
  initialiser or a null record on (`ast.cc:28-29`, `replace_int.cc:25-26`). [`Walk.cfg`
  without `Quiet` in `PlainDecl`, and with `NULL` allowed in `PlainInBlock`: `NoCrash`]
* `static int t[] = {1, 2}; do { f(X); } while (a && b == Y);` retries `t` for the record of
  `X`, finds nothing, has overwritten its place all the same (`local.cc:265`) and looks into
  it again at the next node. [`PlainDecl` without `Uses(b, j) # {}` for aggregates:
  `PrevIsDecl`]
* A record from before the declaration passes the test that should say it is behind it
  (`ast.cc:143` against the comment at `ast.cc:145-148`). [`Plain`
  without `Holds`, `PlainDecl` without its last conjunct: `RetryOrder`, checked alone]
* In `int v = X, w = g(Y);` the first record of the line is not in `g(Y)`, and no other is
  tried: an error for a use that is there (`subcontext.cc:119`, `ast.cc:53`). [`InReach` without its
  second part: `AllFound`]
* In a block that begins on the line of a use, as `{ int v = g(X);`, and goes on with `f(X); }`
  on the next, the block's visit takes the first record, that of `v`, for the constant in `f`.
  Then the lines of what is left do not match: an error, too. [`PlainBlock` without `Quiet`, with
  that block in `OddParts`: `AllFound`]
* Two threads both pass the guard (`local.cc:82` against "runs exactly once").
  [`Statics.cfg` with `Threads = {MAIN, OTHER}`: `RunsOnce`]
* A `goto` or case label behind the declaration of a static leaves its magic number
  (`local.cc:99`). [`SetBeforeUse` without `~ jumps`]

## Theorems

Proved by TLAPS for all values of the constants that satisfy the named assumptions of the
modules: in `SubuList` and `Portcosmo`, `NULL` is no macro, locations have a line and a
column, `MaxUses` is a natural number, and the sets of forms, shapes, hooks, languages and
quirks are subsets of the named ones; in `IfSwitch`, bodies are what gcc's parser lets
through; in `StaticInit`, priorities are the ones a program may use (0 is reserved for the
implementation, which is what the hidden constructors have); in `SubuHeap`, there are finitely
many addresses, `NULL` is none of them, and locations are as in `SubuList`; in `Replace`,
macros are numbers of `tmpconst.h`, a `short` has 16 bits and an `int` and a `long` at least 26;
in `Initializer`, elements are well nested (`Nested`), and the cached fields of the list are
recounted; in `FunctionBody`, which `AstWalk` extends, `NULL` and `EXPR` are no macros, operands are
visited after what they are operands of, and a body has no more constants of a macro than records of it (which is what `CleanSource` and
`SoundInv` are about in `Portcosmo`).

| theorem | states | rests on |
|---|---|---|
| `FilterPasses` | the bounds tests pass whatever a lookup would find | a first and a last location exist, for any length (`FirstLocation`, `LastLocation`, by smallest counterexample); `BoundsEnclose` |
| `TypeCorrect` | `Spec => []TypeOK` | `RecountOK`, `AddElemOK`, `RemoveElemOK`, `CheckEmptyOK` |
| `FilterCorrect` | `Spec => []FilterComplete` | `TypeCorrect` (the caches agree with the nodes), `FilterPasses` |
| `AccountingCorrect` | `Spec => []Accounting` | `TypeCorrect`; lemmas on what adding, removing and clearing do to the set of uses |
| `HooksCorrect` | `Spec => []HooksRestored` | an invariant that ties each hook to what the plugin found in it |
| `RecordingCorrect` | `Hooks = {<<"none", "none">>}` implies `Spec => []RecordingOn` | `RecordingInv` |
| `SoundCorrect` | `CleanSource` implies `Spec => []Sound` | `SoundInv`, below |
| `CountersCorrect` | `Spec => []CountersAgree` | `CountInv`, below; `Accounting` |
| `LedgerCorrect` | `Spec => ImplementsLedger` | `TypeCorrect`, `Accounting`; a lemma per kind of step (recording, substituting, reporting) |
| `SwitchCorrect` | `Spec => Switch!Spec` if breaks lie in the switch or in a block of it | `ChainInv`, below |
| `SwitchSafe` | `Spec => [](TypeOK /\ BreaksReachEnd)` for the same bodies | `ChainInv` |
| `StaticTypes`, `RunsOnceCorrect` | `Threads = {Main}` implies `Spec => []TypeOK`, `Spec => []RunsOnce` | an invariant that ties `sets` to the guard, to where the thread is, and to the constructors still pending |
| `SetBeforeUseCorrect`, `StaticCorrect` | `Threads = {Main}` implies `Spec => []SetBeforeUse`, `Spec => ImplementsStatic` | that invariant: what is visible has been set, and what has not been set is magic |
| `HeapTypes`, `NoUseAfterFree` | `SubuHeap`'s `Spec => []TypeOK`, `Spec => []NoFault` | `IInv`, below |
| `NoNodeLost` | `Spec => []NoLeak` | `IInv`; a chain without repetitions is no longer than there are addresses (`InOrders`) |
| `LoopsImplementList` | `Spec => ImplementsList` | `IInv`; two chains from one node are equal (`OneOrder`), so that the list has one value |
| `SearchTypes`, `ExhaustedCorrect` | `Initializer`'s `Spec => []TypeOK`, `Spec => []Exhausted` | `IInv`, below |
| `OwnRecordCorrect` | `Macros \cap BaudMagic = {}` implies `Spec => []OwnRecord` | `KindOwn`: conversion, negation and complement confuse no two numbers, by arithmetic |
| `RecognisedCorrect` | `Spec => []Recognised` | `KindFound`: what a signed element as wide as an `int` holds is recognised; `ExhaustedCorrect`'s invariant |
| `FirstMatchCorrect` | `Spec => ImplementsFirstMatch` | `IInv`: the element substituted is the first that agrees with a record |
| `WalkTypes` | `AstWalk`'s `Spec => []TypeOK` | each call on the stack is for an operand of the call below (`Chain`); `RemoveIs`, `ReturnTypes` |
| `LoudCorrect` | `Spec => [](StaticsApart(body) => Loud)` | `LoudInv`, below |
| `AllFoundCorrect`, `NoCrashCorrect`, `PrevIsDeclCorrect` | `Spec => []AllFound`, `Spec => []NoCrash`, `Spec => []PrevIsDecl`, each of plain bodies | `PlainInv`, below; `WalkTypes`'s invariant |
| `RetryOrderCorrect` | `Spec => RetryOrder`, of plain bodies | `PlainInv`: the first record left is that of the declaration kept, or behind it |

`Sound` speaks of the last state only, and is far from inductive. The invariant behind it,
`SoundInv`, says of every state without an error that for each macro the number of sites
not yet substituted (in `tree` and `left`) is at most the number of records in the list
(`Cover`), and that no replaced declaration uses up another record (`kept` is empty: without the
quirk no record is found for one). A clean use adds a record and at most one site. A substitution removes one of
each, for the same macro, because a clean site is read as its own macro or not at all. A
check that finds a record fails, and one that finds none means there is no site. It needs
`Accounting` (records of different uses are different, so that they can be counted) and
`RecordingInv` (a use that leaves a site is recorded).

`CountersAgree` compares counters with sets of uses in the history. Its invariant, of the
states without an error, says of every phase how far `initcount` is ahead: in `"decl"` by
the records still pending, else not at all; `Accounting` keeps the sets of uses apart, so that removing a record moves one
use from one to the other and the cardinalities follow.

`LedgerCorrect` maps a state to the ledger: pending are the uses in the list, substituted
those in `done`. A substitution is the ledger's only because the record removed is one of a
single use (`Accounting`), and a check is a report or leaves everything as it was.

`ChainInv`: when the if of a label is tried, no label before it has the value of the
condition. So the chain chooses the first label with that value, and default or the end
only when there is none, which is what `SwitchSem` allows. The least label of a set exists
by well-founded induction on the naturals (the library's theorem).

`IInv` of `SubuHeapProofs` says that there is an order `s` of distinct nodes for which three
things hold. `Structure`: the pointers lead from the list's head (from the loop's pointer
while the list is being deleted) through `s` to `NULL`, and the allocated nodes are those of
`s` and the one that is being added. `Places`: the loop's pointers are at places of `s`, with
`prev` one before `it` and the node to remove still ahead, and what `recount_subu_list` or
`check_empty_subu_list` has accumulated is about the nodes up to that place. `Meaning`: the
values along `s` are those the list had when the function was called, with the change the
function has made, and the cached fields are right whenever no recount is due. Nothing less
will do: that no freed node is used needs the place of the pointer, and that a loop computes
what `SubuList` says needs the values. Each action gives the order of the next state
(appended to, cut, or the same); that `Recount` finds the same extremes from a running
minimum and maximum is `RecountEnd`.

`IInv` of `InitializerProofs` says of a search in which a record before the bound is left that
no element before `at` agrees with any record (`Passed`). It is inductive although the search
jumps: records only get fewer, so that an element that has been passed over stays without
one, wherever the loop starts again; a call or a return moves `at` only over constructors; and
a search that leaves a loop for good leaves no record before the bound, which stays so,
because a removed record can only move the first one back (`BeyondStays`). `Forward` says that
the function that leaves its elements as they are does not come back to one it has used.

`LoudInv` of `AstWalkProofs` says of a walk without an error that the constants left can be
given records of their own, each one of its macro (`Provided`: there is an injection). A
substitution removes a record and a constant of the same macro, and whatever else had been
given that record takes the one that is free now (`CoveredRemove`); at the beginning there is
such an injection because there are no more constants than records (`FewerInjects`). So an
empty list at the end means that nothing is left, whatever was skipped or looked for in the
wrong place. What could go wrong is a substitution without a constant: a static variable that
was replaced keeps its magic number. `Passed` says that only those in blocks are visited
again, and `Once` that those then find no record of their macro. That is where the hypothesis
comes in: `StaticsApart(b)` says that a static with a macro, where it is in a block, is not
the only statement there, and that its macro is recorded once. It concerns only functions with
such statics, and `static_twice` shows that it cannot be left out. The `walk` run checks `Loud`
without it, for functions in which the second use is on another line.

`PlainInv` of `AstWalkProofs` is about the walk of a plain body, in which nothing ever fails. It
has four parts.

* `TreeInv`: the list is the uses that are left, in their order (`Subset`), a constant is left
  exactly if its use is (`Mates`), and so is a static's, but that its magic number stays in the old
  declaration (`Replaced`). This is what the program cannot see and relies on: that the record
  found for a constant is the one the constant came from.
* `BehindInv`: nothing is left in the nodes visited, but in the last one if it is a declaration
  that is now in `prev` (`Done`), and what is in `prev` can be searched (`PrevKept`). Both are
  needed to know that the lines of the next node have no earlier use on them.
* `AheadInv`: what a block's visit, which comes before those of its statements, has done to
  them. A declaration already replaced was an integer, and no other use of its macro is in
  its reach, so that a second visit finds nothing (`Again`); aggregates are untouched; a block
  has all its uses or is inside one that was searched (`Blocks`).
* `ExprInv`: the calls of `check_expr` are nested as the uses are (`Frames`), no use is
  left before the operand looked at (`Searched`), and there is a record for what comes, or the
  whole node is finished (`DeclFound`, `BlockFound`). The last is needed for `NoCrash`: a loop over
  a block goes on after a declaration was substituted, and the next one is handed the first
  record on the line, if there is one.

What makes it inductive is that uses in a plain body are numbered in order, and that intervals
of numbers stand for nodes: that the first record on a node's lines is its own is then
arithmetic (`NumbersRise`, `NodeUse`, `NotMissed`), also when a call of `check_expr` starts over
after each substitution (`OwnUse`, `CallerIs`). A retry is for the first record left; it is behind
the declaration and before the node that is visited, so it is the declaration's (`Pending`). That
a function ends with an empty list follows from `Done`: every use is in a node, and the
last node is no declaration that is due. TLC has checked the invariant for every function of the
`walk` run.

Model-checked only: `Settles`, `LoopsEnd` and the fairness in `ImplementsSwitch` (liveness
is beyond the prover here). Every other property of the passing runs is a theorem, some under
the hypotheses the table names.

## Not modelled, and the plan

The order of work was: `SubuList`, `MacroLedger`, `Portcosmo`; `IfSwitch`; `Replace` and
`Initializer`; `AstWalk`; `StaticInit`; `SubuHeap`; the proofs of each. Left:

* A switch inside a function of `AstWalk`. `Portcosmo` has the visit of a switch with its
  records (`CaseLabel`, `SwitchEnd`), `IfSwitch` its meaning; the order of the inner walk
  (`ast.cc:176`) is open.
* `AstWalk` does not state that it refines the walk of `Portcosmo`: their sites are named
  differently. `Loud` is what `Portcosmo`'s `WalkEnd` needs of it. `Portcosmo`
  says that the walk may come back to a static (`CheckKept`), `AstWalk` when it does.
* The two branches of `build_modded_switch_stmt` for a chain without an `if`
  (`ifswitch.cc:204-211`) cannot be reached: a switch is rewritten only if one of its labels
  was recognised, and that label is an `if`.
* A switch whose labels are in nested blocks (Duff's device): the README of the repository
  excludes it.
* Ranges of designated initialisers (`[0 ... 3] = X`), whose index is no single element.
* The last declaration of a function without a node behind it is never retried
  (`ast.cc:274-279`); the functions of `walk` end in a return, and `Due` asks for that node.
* Stack depth of the recursions; memory that runs out (`xmalloc` ends the compiler).
* Weak memory: `StaticInit` interleaves statements.

Left out for good: debug output, the wording of messages, gcc's own parsing,
`copy_struct_ctor` and `pop_subu_list` (never called), the examples and the build.
