# Boost.Optional in TLA+

Models, model-checking runs and machine-checked proofs about the library in
`src/include/boost/optional`. The reference is the code; where it and its
documentation differ, the difference is stated as a property and shown by a run.

## 1. Inventory

Boost.Optional is header-only and starts no threads. Nothing in it waits, retries
or persists, and a call is a straight line of code with a few branches. What makes
it hard is that almost every line runs code of the user's `T`. That code may throw,
may look at the optional it lives in, may make an `optional<T&>` from it, and may be
handed a reference into that very optional.

| component | state | operations | what is hard | what makes it correct |
|---|---|---|---|---|
| union `optional<T>` (`detail/union_optional.hpp`) | `init_`, a union that may hold a T | constructors, `~`, assignments, `reset`, `emplace`, `swap`, `value`, `value_or` | throws between the operations of T and the flag; unwinding of constructors; aliased arguments; a T that needs no destructor | flag and storage agree, nothing leaks, no dead T is used, exception guarantees, pointers to the value survive assignment |
| fallback `optional_base<T>` + `optional<T>` (`optional.hpp`) | `m_initialized`, aligned storage | the same | conversions through a temporary T; a base class that is complete before the derived constructor throws | the same |
| swap of the fallback (`detail/optional_swap.hpp`, member `swap`) | none | two implementations, chosen by a trait | a member that is `noexcept` and calls T's `swap`; a default T emplaced before the swap; two functions that call `swap` unqualified | exchanges, throws what is documented, loses nothing, ends |
| `tc_optional_base<T>` (direct storage of scalars) | `m_initialized`, a T that always exists | the same, without destructors | storage never written; conversions that throw | never hands out what was never written |
| `optional<T&>` (`detail/optional_reference_spec.hpp`) | a pointer | rebinding assignment, conversions from `optional<T>` | outlives what it points to; is made in the middle of a call on its owner; the T is changed through it past its owner | bound to live T only, dangles only when the owner ended its T, assignment rebinds |
| `map`, `flat_map`, `value_or_eval` | none | call a function with the value | functions that throw, assign to the value, move it away, reset the optional, or call `map` again | called with live T only; answer for the moment of the call |
| nonmember interface | none | `get_pointer`, `get_optional_value_or` | pointers that are kept | as for `optional<T&>` |
| relational operators, `std::hash` | none | thirty comparisons of optionals, values and none | the cases with none; storage that still holds an old value | one order that extends T's; equal implies equal hash |
| stream `<<` and `>>` | none; the stream's | print, parse | one value behind another; malformed input; exceptions of T and of the stream | what was written is read back; a failed read is known by its failbit and changes only what it was given; reads come to an end |
| `none`, `bad_optional_access`, traits, configuration | none | tags, compile-time choices | | |

The components interact by calls, and through pointers. The member `swap` of the
fallback calls the free one, which calls operations of `optional<T>`. `optional<T>`
of the fallback derives from one of two base classes. An `optional<T&>` keeps a
pointer into the storage of an `optional<T>` that does not know of it. `map` calls a
function that may call anything of the optional that it was called from. `>>` ends in
an assignment to the optional.

`PROJECT.json` lists every component with its status, and the hazards at their lines.

## 2. Plan

Done, in this order:

1. `ObjectModel`, the objects and statements that both implementations share;
2. `OptionalContract`, what the reference documentation promises;
3. `Guarantees`, the safety and action properties, and the refinement to the contract;
4. `UnionOptional` and `OptionalBase`, the two implementations of `optional<T>`;
5. `ProgramInv` and `ContractInv`, the invariants of the two, and the proof modules: the
   safety and action properties of `Guarantees`, and the refinement of the contract, for
   every set of optionals and values;
6. `TcOptionalBase`, direct storage, against the same contract, with the refinement proved;
7. `OptionalRef`, references into optionals, on top of `UnionOptional`, with proofs;
8. `OptionalRelops`, comparisons and hashes, with proofs;
9. `OptionalIO`, streams, against the abstract `OptionalChannel`, with the refinement proved;
10. `OptionalMonadic`, callbacks, on top of `OptionalRef`; `OptionalSwap`, the dispatch
    of swap, on top of `OptionalBase`, with its invariant in `SwapInv`; both with proofs.

Worth doing next: a statement of what the dispatched swap promises in terms of
`OptionalContract`, where the implementation that emplaces a default T first is weaker than the
contract when it throws; and the fallback under `OptionalRef`, whose references now point into
the union implementation only.

## 3. How the models work

### The object machine (`ObjectModel`)

`slot[p]` is the T in a place p, or `Raw`. The places are the storages of the
optionals (`Opts`), the caller's argument `Arg`, the result `Ret` and a temporary `Tmp`.
`init[o]` is the flag (`init_`, `m_initialized`), `life[o]` the lifetime of the optional:
absent, under construction (`storage` while an exception finds no complete subobject,
`body` when unwinding will destroy the storage), alive, dying.

A call is started by one action of an implementation module. Its guard is the call's
precondition. The branch the code takes is settled from the flags, because every branch
of the code is taken before the first operation of T runs; and what the code then does
is left in `todo` as a sequence of statements, in program order: `Construct`, `Destroy`,
`AssignT`, `SwapT`, and the assignments `Engage` and `Disengage` to the flag. Each
statement is a step, so a state between two of them is what code of T would see. `RunT`
lets an operation of T succeed, `ThrowT` lets it throw (unwinding replaces what is left),
`RunFlag` sets a flag, and `Return` ends the call.

* An operation of T may leave a moved-from object with its value or an unspecified one.
  With the basic guarantee (`Strong = FALSE`) a throwing operation may leave the objects
  it worked on unspecified too; with `Strong = TRUE` it leaves them as they were.
* A move may be a copy, so "may move" covers both. Destructors do not throw.
* Reading a T after its end is undefined: the model reads any value (`ReadsDead`).
* The argument is a live object of the caller's, or the value inside an optional, the
  target's own included.
* `reset(v)` is assignment of v.
* In the fallback, `assign_value` takes a T: `Converted` makes the temporary first.
  `construct(Expr, void const*)` converts in place.
* The storage for a trivially destructible T never runs `Destroy`; a reset leaves the old
  T in the storage (`Trivial = TRUE`), which ends with the optional.

### The implementations of `optional<T>`

`UnionOptional` has one action per public operation (overloads that differ only in value
category or in how the argument is forwarded are one action with a `how`), built from
`guarded_storage`'s operations (`StorageFrom`, `StorageReset`, `StorageDtor`) and
`Initialize`. `ConstexprCopy` stands for `BOOST_OPTIONAL_CONSTEXPR_COPY`: the storage
comes from a factory function or is built empty and initialized in the constructor's
body, which differ in what unwinding does. `OptionalBase` does the same with
`ConstructIn`, `DestroyIn` and `Converted`; it has the converting constructor and
assignment and the assignment of an expression as operations of their own, because they
make temporaries.

`TcOptionalBase` needs no object machine. A scalar has no operation that throws, so
after the conversion of the argument to a T no code of the user runs any more: a
call is one step that makes it (`Make`), and one that ends it, by the action of that name
or by `Throw`, the conversion that throws. `m_storage` is a T for as long as the optional
lives, engaged or not; what nobody wrote is `Garbage`, which a defaulted copy hands on.
An `optional<U>` to convert from is one of the same variables, of which a conversion reads
only the flag and the value. A call that converts may consume its source even when it
throws, unless `Strong`.

### Swap of the fallback (`OptionalSwap`)

`UnionOptional` and `OptionalBase` have swap as one program. `OptionalSwap` replaces that
call of `OptionalBase` by one whose first statement is a call of swap on optionals;
`RunInvokeSwap` replaces the statement by what the free function does. Which
implementation it takes, which operations of T may throw, and whether T's moves are
`noexcept`, is chosen in the initial state and stays. `sealed` says that the `noexcept`
member is on the stack: an exception then is `Terminate`, after which nothing happens.
This is the one system that may stop, so its two runs do not check deadlock.

### References (`OptionalRef`)

`ref[r]` is `ptr_` of the `optional<T&>` r, a place or `Null`. Every operation is one step,
taken between calls on the owners or whenever code of T runs within one (`UserCode`).
Assignment to `r` rebinds. The T itself is assigned to by `*r = x` (`RefAssign`) and moved from
by `T x = std::move(*r)` (`RefTake`), past the optional it lives in: no flag is looked at. The
program does so between calls, with a reference whose T has lived on (`Usable`); in the terms of
the object machine it is one statement, `AssignT` or `Construct`, and what it does to what a
caller sees is what a call on the optional might have done.
`same[r]` is a history variable: whether the T that r was bound to has lived on. It
settles which references a program may still dereference (`RefFromValueOr`, `MapRef`), and
`OwnerStep` clears it when a T ends; no operation of `optional<T&>` reads it otherwise.
`get_ptr()`, `get_pointer` and `get_optional_value_or` hand out pointers into an optional,
so they are operations here as well.

### Callbacks (`OptionalMonadic`)

`map` and its kin call a function, and while it runs the program goes on: it makes calls
on the owners, binds references, and may call `map` again. `frames` is the stack of the
active callbacks. The argument of the one at depth n is the reference n, so `Refs`
contains `1..Depth`, and the program's own references are the others (`Variables`).
`Map` has the three overloads. A function that is given a `T&` or, by the overload for rvalues
(`f(move_(get()))`), a `T&&` may assign to the T, move it away (`UseArgument`), and keep or return
its argument (`KeepArgument`); one that is given a `const T&` may not.
`FReturns` and `FThrows` pop the stack; `answer` is what the call returned. `map` and
`flat_map` of the fallback and of `optional<T&>` are statement for statement the same.

### Comparisons and hashes (`OptionalRelops`)

These are pure functions of the flags and of T's operators, so T's `<`, `==` and hash are
variables fixed by `Init`, and the program evaluates expressions. An operator
applied to the storage of an empty optional would yield `junk`.

### Streams (`OptionalIO`, `OptionalChannel`)

The buffer is a sequence of tokens: `"blank"` and `"dash"` are the characters `' '` and `'-'`
that the operators write and look for; a value of T stands for its text, which for a value in
`Signed` begins with a dash. `eof` and `fail` are the stream's bits, `mask` its exception mask.
`ExtractT` is T's `operator>>`, external, with what a formatted extraction does: skip
spaces, match, set the bits. Where it stops depends on T (`reads`): behind its text, as for a
`char` (`"exact"`), the same with a look at what follows, as for numbers (`"number"`), or at the
next white space, as for a `std::string` (`"word"`), which may make it a T whose text is that of
none of `Values` (`Other`). `Read` has one disjunct for each path of the code.
`OptionalChannel` is the abstraction: a queue of optionals. It holds as long as nothing
but optionals is written, T does not throw (`Calm`), and T is not read as a word (`Lossless`).
`Decoded` maps the buffer to the queue: `Decode(b)` gives for each position what the optionals
from there on are.

### Slips

Definitions under a comment "slip" are wrong on purpose. Each is a plausible bug in the
definition after it, and for each property there is one that breaks it.

### The contract (`OptionalContract`)

What callers see: for each optional `None`, a value, or `Absent`. A call is made and then
ends: it returns in a state that `Returns` allows, throws in one that `ThrowsT` allows, or
throws `bad_optional_access`. `Guarantees` instantiates it: while a call is in progress
the caller's state is the one the call started from (`before`), and afterwards what the
flags and storages show (`Seen`). The calls that end the old value before they make the
new one are its constant `Rebuilders`: `emplace` and the assignment from a factory in the
first two implementations, none in `TcOptionalBase`, which so keeps the contract in its
strictest form.

## 4. Properties

| property | says |
|---|---|
| `FlagTellsTheTruth` | whenever code of T runs, `has_value()` agrees with the storage |
| `NothingLeaks` | no T stays behind in the storage of an optional that is gone |
| `LifetimesRespected` | T is constructed only where there is none (the `BOOST_ASSERT` of `initialize()`), only live T are destroyed, assigned, swapped; only an aliased rebuild reads a dead one |
| `EngagementSurvivesThrow` | a throw changes no engagement, except that emplacement and assignment from a factory leave none |
| `StrongGuaranteeLifts` | a strong T makes every call strong, but those and, in the fallback, the conversions of rvalues |
| `PointersStayValid` | (action) a value ends only in a call that is to end it: assignment and swap of engaged optionals keep it in place |
| `ImplementsContract` | (refinement) every call does what the contract says, for aliased arguments and self-assignment too |
| `IInv` | the inductive invariant of the object machine: at which program a call stands, in which state, and what it may still change |
| `ContractInv` | what a call has left to do is for what the contract has it do, and what it has changed may be left if T throws; once nothing can throw, it will leave what it promised |
| `SwapInv` | the inductive invariant of swap: at each point of it, what both optionals hold in terms of what they held before |
| `TcInv` | scalars: a flag is set only in a live optional with a written value, and what the call in progress needed when it was made still holds |
| `EngagedIsWritten` | scalars: no caller reads storage that nobody wrote, though it is left by constructors and copied along |
| `SwapExchanges` | a swap that returns has exchanged contents and flags, by either implementation, with itself too |
| `SwapThrowsOnlyWhatItUses` | a swap throws only if an operation that it is documented to use throws |
| `ThrowingSwapLosesNothing` | when a swap throws no value is lost; at most a default T is left over, by the implementation for old compilers |
| `StrongButForOldSwap` | `StrongGuaranteeLifts`, with its exceptions, for the dispatch of swap: of the swaps only that which emplaces a default T is excepted |
| `SwapEnds` | (liveness) every call, through the member or the free swap, ends |
| `RefSeesOwner` | a reference that was bound, in the middle of a call too, refers to a live T, and between calls that is the T its owner holds |
| `DanglesOnlyWhenOwnerEnds` | (action) a reference into an optional dangles only by a call that is to end the value, or, of a T without a destructor, when it had only lingered in an optional that no longer has it |
| `AnswersForTheCall` | `map`, `flat_map`, `value_or_eval` answer for the state they were called in, whatever the function did to the optional |
| `MixedFormsAgree` | a comparison with a T or none yields what that of two optionals would |
| `OrderLifts`, `EqualityLifts` | T's strict weak order, equivalence, and their agreement carry over to optionals, with none least |
| `EqualHashAlike` | equal optionals hash alike if equal values do, whatever an empty storage holds |
| `ImplementsChannel` | (refinement) for a T whose `operator>>` stops where its text ends, optionals written one after the other are read back in order, whatever their text begins with |
| `StoresWhatItFound` | a read that reports success stored the optional whose text comes first, whatever is in the stream |
| `ReadsChangeOnlyAsFound` | (action) a read changes no optional but its own, and that to none only behind a whole `--`, to a T only behind a blank; what a throw leaves is the old value or a broken one, what a failure leaves is the old value or, where the stream does not throw, the T of the failed extraction |
| `ReadLoopEnds` | (liveness) a program that only reads comes to a failed stream or, with a T that looks beyond its text, to the end of the stream with eofbit alone |

Four properties are words of the documentation or of comments that the code does not keep,
each refuted by a run (`PROJECT.json`, "findings", quotes the words):

* `AssignmentsAreStrong`: assignment from a factory is listed among the strong ones
  (`doc/19_exception_safety.qbk:22-28`), and resets first.
* `ThrowLeavesUninitialized`: by the comments on the assignments from an expression and from
  `optional<U>`, and on `emplace` (`optional.hpp:740`, `754`, `764`, `837`), a conversion or factory
  that throws leaves the optional uninitialized; one of a scalar keeps its value. The comments at
  754, 764 and 773 are contradicted by the code for class types as well: there
  `EngagementSurvivesThrow` holds, which the run `base_basic` checks.
* `SwapThrowsWhatTThrows`: the `noexcept` member swap ends the program when T's swap throws.
* `StreamsBack`: "if streaming out and then back in `T` gives the same value, then streaming out
  and then back in `optional<T>` will also" (`doc/15_io.qbk:18`). Of a `std::string`, `" ab"` and the
  `"--"` behind it are read back as `"ab--"`.

One more difference is in the model and has no run of its own: `doc/23_ref_optional_io.qbk:75`
says that a read of what is neither a value nor `--` destroys the old value; `ReadMalformed`
leaves it, as the code does.

## 5. Runs

| run | instance | states | shows |
|---|---|---|---|
| `union_basic` | basic T, constructors with bodies | 13 003 | types, all safety properties, pointers, the contract |
| `union_trivial` | strong, trivially destructible T, storage factories | 19 587 | `IInv`, `ContractInv`, the contract in its strong form |
| `union_refs` | strong T, storage factories; one reference variable and one active callback | 282 485 (up to symmetry) | `StrongGuaranteeLifts`, lifetimes, references, callbacks |
| `base_basic` | basic T | 17 069 | `IInv`, `ContractInv`, the safety properties, pointers, the contract |
| `base_swap` | strong T, every choice of what T's operations may throw | 342 184 | `SwapInv`, the five swap properties |
| `tc_contract` | conversions that consume and throw | 11 345 | `TcInv`, `EngagedIsWritten`, the contract |
| `relops` | three values, two hashes, every lawful order, equivalence and hash | 300 560 | the comparisons and hashes |
| `io_stream` | two optionals, two values, one of them signed, every kind of T | 65 668 | streams |
| `union_docs` | violation | | assignment from a factory is listed as strong and is not |
| `tc_docs` | violation | | an assignment or emplacement whose conversion or factory throws leaves a scalar's old value, not an uninitialized optional |
| `swap_noexcept` | violation | | T's `swap` throws through a `noexcept` member swap |
| `io_docs` | violation | | a word and an empty optional behind it do not come back from the stream |

Where nothing else is said an instance has two optionals and two values. Two optionals are
enough for every call (a call names at most two) and for what another call left behind in
either; two values tell the old one from the new one, and `Unspec` is a third. All
histories of calls of any length are explored: nothing is counted, so no bound cuts a
history short. The other bounds are:

* `union_refs`: one value, because the callee's own value is told from the argument's by
  `Unspec`, and one reference, because references do not affect one another except by copy
  and swap, whose effects the proofs cover for any number. `Depth` 1 lets a callback do
  anything but start another that is active with it; while it runs the program may call
  `map` on the empty optional, make any call, use the argument, and rebind the reference. (Nested
  callbacks are left to the theorems, which hold for any depth.) The two optionals are
  interchangeable (`Symmetry`): no definition tells one from another, and the properties are
  invariants and an action property, for which symmetry is sound.
* `relops`: three values are what transitivity needs. T's operators that break their laws
  (`Lawful = FALSE`) are too many for a run; the theorems hold for them as well.
* `io_stream`: the buffer of a program that writes only optionals has up to 7 tokens
  (`TidyBound`), two of the longest texts and one more token, one behind the other; that of a
  program that writes anything, or has a T that throws, 3 (`JunkBound`), the longest text. There
  are two optionals, so that a read that changed another than its own would be seen.

Deadlock is checked, except where `std::terminate` ends the program (`base_swap`,
`swap_noexcept`).

### Fairness

The library has no scheduler: a call goes on because the thread that made it does. That is
the only fairness there is. `FairSwapSpec` has weak fairness of the steps of the call in
progress (`SwapSteps`): operations of T end, one way or another. It has none of making calls.
What `SwapEnds` then shows is that the calls from one swap to another end.
`FairSpec` of `OptionalIO` has weak fairness of `ReadStep`: the loop goes on reading. That a
program does nothing else but read is the premise of `ReadLoopEnds`. Its conclusion has two
cases. If T's `operator>>` looks beyond its text, as for numbers and words, the last read may set
eofbit alone. The next read then finds a stream that is not good, does nothing, and sets no
failbit: `while (in >> v)` goes round for ever with the old value. The code has no test of
`eofbit` (`optional_io.hpp:59`), and the model has that behaviour. Only for the other T, and in
all other cases, the stream is failed in the end.

## 6. Proofs

Every safety and action property that a run checks, and every refinement, is proved for all
values of the constants. The assumptions are those on the constants, named in the modules that
declare them: the places and the special values are pairwise different, there is at least one
optional, a mark of a stream is no value of T. No run and no theorem assumes anything about
what T does, but what the `Strong`, `Trivial`, `throwing`, `Signed` and `reads` of each model say.

### The object machine

For every nonempty set of optionals, any values, any T (strong or basic, trivial or not)
and both ways to build the storage, `UnionOptional_proofs` and `OptionalBase_proofs` prove
that `IInv` is inductive, and from it `TypeOK`, `FlagTellsTheTruth`, `NothingLeaks`,
`LifetimesRespected`, `EngagementSurvivesThrow`, `StrongGuaranteeLifts` and
`PointersStayValid`.

None of these is inductive. In the middle of a call flag and storage disagree, and whether
that is right depends on what the call has still to do; and what a throw leaves behind
depends on what the call has done since it was made. `IInv` therefore has two parts.

* `StageInv` lists the nineteen shapes that `todo` can have (a fact about all programs of
  both implementations) and, for each, the state that its first statement needs; all
  optionals a program does not name are calm. The properties about single states follow
  from it: flag, leaks, lifetimes.
* `PromiseInv` relates the state to `before`, what the caller saw when it made the call. As long as
  an operation that may throw is still to come (`MayYetThrow`), no optional
  has changed its engagement but the one being rebuilt (`EngagementInv`); if T is strong and the call is
  not exempt, what a caller would see now is what it saw then (`ValuesInv`); a rebuild touches
  no other optional (`RebuildInv`); and the program destroys only what the call is to end
  (`EndingInv`). The exception guarantees follow when the call ends, and `PointersStayValid`
  when a T ends: a destructor runs only by `EndingInv`, a constructor that throws leaves
  raw storage only where a caller knew of no T, and the return of a call takes away storage
  only with its optional.

`ProgramInv_proofs` proves once, for the object machine, that running,
throwing and returning lead from a shape to its rest, and that a call that starts with such
a shape in the right state establishes the invariant; it also has the facts about short
sequences. An implementation then only has to
show that each of its actions starts one of the shapes, may end what its program destroys
(`MayEnd`), and has only statements that the call is for (`Planned`), which is one lemma per
operation.

### The contract

`ContractInv` is inductive next to `IInv`, and makes both implementations refine
`OptionalContract` (`Implements`). It follows a call from its start to its end:

* `PlanInv`: the call is one that the contract knows and allows, and each statement left is
  for it. A statement that may throw transfers the value that the call was given, directly or
  by a temporary, makes the result, or exchanges; all others only keep house in the optionals
  that the call names.
* `WorkInv`: while an operation that may throw is to come, every optional shows what it showed
  before, but for the one being rebuilt, and the source of a conversion whose temporary is
  there.
* `SettledInv`: from then on what the caller will see when the call returns is settled: flags
  still to be set count as set (`WillBeSet`), an optional under construction as alive
  (`Coming`), and that is what the contract lets the call return.
* `FailedInv`: after a throw the state is one that the contract lets it leave.

`ContractInv_proofs` proves for each kind of step (`RunT`, `RunFlag`, `ThrowT`, `Return`) that
it leads from one of these to the next. The step from `WorkInv` to `SettledInv` is the heart
of it: the last operation that may throw has to deliver exactly what the call promised, with
aliased arguments, self-assignment and values that were moved from.

### Swap of the fallback

`SwapInv` is the invariant of `OptionalSwap`. A call that is no swap has `IInv`. A swap in
progress stands at one of eight points, which say what both optionals hold in terms of `before`:
before the dispatch and behind it, after T's swap, and, if only one has a value, between
the statements of either implementation (`AtDefaultEngage` ... `HandedOver`). `SwapFailed`
lists the ways in which it may have thrown, with the operation of T that did. When it is
over it has what it promised (`Swapped`), and `StageInv` again, from which the next call
starts; nothing else of `IInv` is needed at the start of a call. `OptionalBase_proofs` derives
`SwapExchanges`, `SwapThrowsOnlyWhatItUses`, `ThrowingSwapLosesNothing`, `StrongButForOldSwap`.

### References and callbacks

`OptionalRef_proofs` adds `RInv`: a reference to a T that lives refers to storage that holds
one. It is inductive on top of `IInv`, because a conversion that trusts the flag is made only while
code of T or the program runs, when `FlagTellsTheTruth`. From it follow `RefTypeOK` and
`RefSeesOwner`. `RefsDangleOnlyThen` follows
from what also gives `PointersStayValid`: a step of a call ends only a T that the call is to end, or,
if T has no destructor, one that only lingers (`EndsOnlyItsOwn`). `OwnersAreUnaware` shows that the
system with references implements the one without, so that every theorem about
`UnionOptional` holds for owners that are referred to. Assignment through a reference and the move
out of it are in it, and are why it needs `RInv`: what they do is what a call on the owner might
do only if the owner is engaged (`UsedIsEngaged`, `UseIsACall`).

For callbacks `MInv` adds `FrameInv`: the reference n is the argument of the callback at depth
n and what its `map` found. `AnswersForTheCall` follows, and `CallbacksAreReferences`: to the
optionals and references a callback, of whichever overload, is no more than code of the program
that holds a reference, so that the theorems above hold around and inside callbacks. Two of them
are stated: `CallbacksFindLiveObjects` (`LifetimesRespected`) and `CallbacksKeepContract`
(`ImplementsContract`). All this is for any number of references and any depth.

### Scalars, comparisons

`TcOptionalBase_proofs` proves that `TcInv` is inductive, that `EngagedIsWritten` follows from it,
and that `TcOptionalBase` implements `OptionalContract`: what a caller sees (`Seen`) is put
for the contract's `val`, and each action is shown to be the contract's `Make`,
`EndByReturning`, `EndByThrowing` or `EndByBadAccess`. The proof reads `Seen` place by place
(`SeenIs`, `SeenTells`) and has one lemma per shape of operation; `TcInv` is needed because
only a set flag and a live optional make a storage readable.

`OptionalRelops_proofs` proves the four properties of comparisons and hashes for any set of
values and any operators, lawful or not: the laws are premises of the properties.

### Streams

`IOInv` is the types and `StoresWhatItFound`, from which `ReadsAreTruthful` and, with a look at
each path of a read, `ReadsChangeLittle` follow.

`StreamIsAChannel` proves `ImplementsChannel`, for buffers of any length and every T whose
`operator>>` stops where its text ends (`Lossless`). Its invariant
`ChannelInv` says that the buffer is well formed: it can be cut (`Cuts`) into pieces, each of which
is the text of one optional (`Piece`). The proof has three facts about such a buffer. What is
written behind it decodes to one more item (`WriteDecodes`); what a read finds at its front is
the first item, and the rest decodes to the others (`ReadDecodes`); and T's `operator>>` finds in
it the value that was written and no other (`ExtractsValue`), since no text of T begins with a
blank and a dash is the first character of the signed ones only. `Decode` is a recursive
function. That the recursion has a solution (`DecodeExists`), that a rest of the buffer decodes as
it did in the whole (`RestDecodes`), and that what holds for a piece if it holds for the next one
holds for all (`FromTheEnd`) are inductions, made by taking the least, or greatest, counterexample
(`LeastMember`, `GreatestMember`).

### Only model-checked

The two liveness properties, `SwapEnds` and `ReadLoopEnds`: fairness and `ENABLED` are out of
the prover's reach.

## 7. Not modelled

* Decisions of the compiler: overload resolution, traits (`optional_common_defs.hpp`,
  `experimental_traits.hpp`), `constexpr`, the preprocessor's choice of implementation
  (`optional_config.hpp`). What they choose between is modelled, as constants or as modules.
* Alignment and aliasing of raw storage, compiler workarounds (among them
  `optional_trivially_copyable_base.hpp:224-250`, overloads for compilers with weak overload
  resolution, and the assignment operators for compilers without rvalue references).
* `map` and `flat_map` of an optional of a scalar: they are those of `optional.hpp`.
* Destructors that throw, and threads: the library makes no promise about either.
* In-place factories are another library: a factory is one construction of a T.
* `none_t`, `none` and `bad_optional_access` are tags without behaviour.
