# TLA+ verification of the LLVM debugger

The repository turns a C or C++ program, the *target*, into a library and runs it
under a controller that knows its functions and types. This directory holds TLA+
models of the parts in which something can go wrong that a test would hardly show,
the TLC configurations that check them on small instances, and proofs, checked by
TLAPS, that the safety properties hold on every instance.

Paths below are relative to the repository; `controllerLib.cpp` and the like stand for
the file of that name under `src/`.

## 1. The system

### 1.1 The steps from source to log

1. Clang plugins read the target's source and append to csv files: `save-typedefs`
   writes enums, structs and unions (`saveTypedefs.cpp`), `save-func-parms` functions
   with their parameters' types and names (`saveFuncParms.cpp`, `clangHelpers.cpp`).
   They run once per source file; the files are never truncated by them.
2. LLVM passes read the csv files and change the target's module: `Librarify` adds
   tables of its functions and types and a wrapper for each function that takes a
   buffer of parameters (`Librarify.cpp`, `llvmHelpers.cpp`); `Logger` puts a call of
   `logFunctionParameters` before and of `logFunctionReturn` behind each direct call
   (`Logger.cpp`). The Makefile runs Librarify alone (librarify mode) or both in one
   process, one after the other (debugger mode).
3. The module is linked with a controller. `librarifyController.cpp` offers the
   functions, asks for parameters and calls one; `debuggerController.cpp` runs the
   target's main, logs every call with its parameters and return value, and catches the
   signals that end the run. Both print and enter values with `controllerLib.cpp`.

### 1.2 Components

| Component | State | Operations | Made correct by |
|---|---|---|---|
| call log (`debuggerController.cpp` 68-162, 163-227) | `funcNameStack`, `indentLevel`, the stream `o` and its file | `logFunctionParameters`, `logFunctionReturn`, `main` before and after the target | lines nest like brackets; the entry of a call in progress is never taken away; nothing is written to a closed file |
| signal session (`debuggerController.cpp` 22-67, `controllerLib.cpp` 297-326) | the kernel's table of handlers, `all_old_handlers`, `signalHandledReturn`, `old_handlers`, `savePoint` | `handleAllSignals`, `signalHandler`, `unhandleSignals`, `runFunctionWithSignals`, `tryPossibleSegFault` | a handler never jumps to a frame that is gone; every table entry is put back |
| printing of pointers (`controllerLib.cpp` 328-519) | `enteredPointers`, the guards, the target's memory | `printType` | ends on cyclic memory; an unreadable pointer costs no more than its object |
| layout of values (`controllerLib.cpp`, `Logger.cpp`, `Librarify.cpp`, `debuggerController.cpp`) | the tables of types | `printType`, `inputType`, `getTypeByteLength`, `getLargestTypeSizeContained`, offsets of buffers and wrappers | all agree with each other and with the target's compiler |
| librarify controller (`librarifyController.cpp`, `controllerLib.cpp` 1-295) | the chosen function, buffers in `storage`, `std::cin` | the menu, `isInputableType`, `inputType`, the call | addresses handed to the target are valid; everything offered can be entered; the prompts for enums and unions end even when `std::cin` has failed (the one for a bool does not) |
| save-func-parms and the choice of rows (`saveFuncParms.cpp`, `Librarify.cpp` 269-379) | rows of the csv file | `HandleFunctionDecl`, the search in `Librarify::run` | each function is given its own parameters |
| tables of structs (`Librarify.cpp` 124-261, `llvmHelpers.cpp` 143-199) | `structNames`, `structCount`, two maps into them, rows | `readTypeDefsCsv`, `basicGetTypeAsString`, the loops of `Librarify::run` | every name leads to a row of its type |
| Librarify and Logger passes (`Librarify.cpp` 220-430, `Logger.cpp`) | the module, `functionMangledNames`, `functionPointers` | renaming of main, wrappers and their rows; which calls are logged, and where the inserted calls go | each row leads to the wrapper of its function; what the log shows is the direct calls in progress |
| pointer type inference (`llvmHelpers.cpp` 201-322) | `determinedTypes`, `visitedFunctions` | `getTypeAsString`, `attemptFindPointerType` | ends; finds only what uses show, at the right depth, and loses nothing but at its limit |
| type names and definitions (`clangHelpers.cpp`, `saveTypedefs.cpp`, `saveFuncParms.cpp`) | `knownClasses`, `knownStructs`, ..., rows of both csv files | `fixTypeName`, `HandleEnumDecl`, `HandleStructDecl`, `HandleUnionDecl`, `HandleFunctionDecl`, `readTypeDefs` | what is named is what it says, and can be looked up |
| pass registration (`getPassInfo.cpp`), build files | none | | |

Components meet in four ways: through csv files (plugins to passes), through globals the
pass puts into the target and the controllers read by name (`functionParamTypes`,
`structNames`, `functionPointers`, ...), through the calls the passes insert and the
wrappers, and through the kernel's table of signal handlers, which the controller, the
guards of `printType` and the target share.

### 1.3 What is hard

- **Control that leaves by a jump.** Exceptions, `longjmp` and signals abandon calls whose
  `logFunctionReturn` never comes; a fault inside `printType` jumps over the code that would
  have restored `enteredPointers`, `old_handlers` and `savePoint`.
- **Signals at any step.** The handlers are installed and removed one by one, each a state in
  which a signal may arrive.
- **The target's memory is anything.** Cyclic, shared, unreadable.
- **Layout worked out four times**, with no code in common.
- **Names before rows.** The passes hand out names of types whose rows follow later or never.
- **Searches in circles.** What a pointer points to is looked for through loads, stores, calls and phis, in both
  directions, with a memory that outlives each search.
- **Calls that are chosen by their uses.** The Logger pass logs a call for each use of the function it calls; invokes, calls through
  pointers and those in wrappers it leaves out.
- **Order of declarations.** Which row a function finds depends on which came first.
- **A stream that fails for good**, in loops that ask again until the answer is right.

`PROJECT.json` lists each hazard at its line with the properties that cover it.

## 2. Modules

One module per component; an `MC` module gives constants that a cfg cannot express; a
`Proofs` module holds the theorems.

| Module | Models |
|---|---|
| `CallLog` | the run-time call log through the life of the controller's process |
| `CallBrackets` | what the call log promises: the abstract specification `CallLog` implements |
| `SignalSession` | one run under `runFunctionWithSignals`, at the grain of single statements |
| `PrintWalk` | `printType` on a pointer into arbitrary memory |
| `TypeLayout` | the four layouts, as operators on the tables of types |
| `Prompts` | the main of librarify mode and `inputType` |
| `FunctionMatch` | the rows of functions and how the pass picks one |
| `TypeTables` | the table of structs and the names that refer to it |
| `PointerInference` | the search for the type of a pointer |
| `TypeNames` | the plugins: names of types, definitions and functions that are recorded |
| `LoggerPass` | both passes on the functions of a module, and the run of what comes out |

`CallLog` and `SignalSession` model the same code at two grains: in `CallLog` a log function
is one step and a signal comes between steps, and the stack has names on it; in
`SignalSession` the functions fall into their statements, and the stack is only its height.
`PrintWalk` takes the guards for granted that `SignalSession` models; `Prompts` takes for
granted where in a buffer a value lies, which `TypeLayout` models. `LoggerPass` is the composition of the passes with the
call log: `CallLog` takes a target for granted whose calls are bracketed by the log functions, and `LoggerPass`
shows, with `CallLog` instantiated as the log, that the instrumented module is such a target.

### 2.1 CallLog

`calls` is what the target is really executing, `funcNameStack` what the log believes.
A name is its rank in the order of `strcmp`, the only thing the log asks of it. The target
is the environment: `Call`, `Return`, `Unwind` (an exception caught, or a longjmp, any
number of frames up), `SecondReturn` (setjmp), `ExceptionEscapes`, `Signal`, `Exit`. The controller
is `StartMain`, `InvalidMain`, `ReportUnreturned`, `Close`. Static constructors and
destructors of the target run before and after it and are instrumented as well.
`logFunctionReturn`'s loop compares names only, so `LogFunctionReturn` finds the entry where
it stops; when there is none (`PopsPastBottom`) the code reads below the vector's block,
which is no valid address, and the run ends by the signal this raises.

`ImplementsBrackets` maps the log stack to its height and the set of entries whose calls are in progress (`LiveEntries`),
and says that each step opens a bracket, closes some of which the lowest may be the returning call's, or closes none. A second return of setjmp may pop entries of the calls then in
progress: these lose their place (`slot` becomes 0) in `SecondReturn`, and when one of them returns the loop may take any names of others without a place
(`ReturnAgain` of the abstract specification). For the calls made after it, both properties hold as before.

### 2.2 SignalSession

`disposition` is the kernel's table. `HandleSignal` and `UnhandleSignal` are one turn of the loops of
`handleAllSignals` and `unhandleSignals`; `SetPoint` is `sigsetjmp`; `Arrive` delivers a signal from
outside at any state; `Fault` is one of the target, `FaultCaught` and `FaultAstray` are
faults inside a guard with a good and a stale `savePoint`. `EnterGuard`, `LeaveGuard` and
`GuardReturns` are `tryPossibleSegFault`. The log functions fall into `Push`, `IndentMore`, ...,
between which a signal can separate stack and indentation. `TargetHandles` lets the
target install handlers of its own.

### 2.3 PrintWalk

The memory is a function from cells (fields of objects, and the parameter) to objects, `Null`
and `Wild`, chosen in `Init` and never changed. `walk` is the recursion of `printType`, one
frame per object with the field it is at; `enteredPointers` is the vector of that name.
`StringFaults` is a `char*` that cannot be read, for which there is no guard of its own: it
jumps to where `savePoint` says, which is the frame of the object, or a frame that
has returned, in which case what follows is undefined and the model stops (`pc = "lost"`).

### 2.4 TypeLayout

Types are records; the tables grow by one definition per step (`DefineStruct`,
`DefineUnion`), so that the reachable states are all programs' tables up to the bounds. `Printed`,
`Entered`, `LoggedAt`, `WrapperReads`, `PrintedParams`, `EnteredParams` give the list
of offsets of all scalars by each part's own arithmetic; `Stored` is the layout of the
target's ABI, the one external definition. A union's fields are looked up in the
tables of structs, as in the code. `ByteLength`, `LargestContained`, `Prints`, `Inputs`, ... are each one call of the function
they are named for, told what it found out of the types within; `Found` is their common recursion. `Inputs` gives what
is pushed to a buffer, `Written` and `Entered` where that puts it.

### 2.5 Prompts

`todo` is what is left of the recursion of `inputType`: types to be entered into a buffer, pointers to be
pushed once the values behind them are there, unions to be filled up. A buffer is the sequence of what was
pushed; because each push moves the block, an address is the buffer's number and the number of pushes so
far, and it is valid as long as that is the buffer's block in `heap`. `cin` is good or failed;
`ReadNumber` says what `>>` does to a variable in either state: what is no number makes it 0, and
at the end of the input and ever after it stays as it is. `option` keeps its value across the prompts of
an enum: with a failed stream it counts down, wraps around (there is no optimisation in the Makefile's
build of the controllers) and arrives at an option that is accepted. Undefined outcomes (a union's option
beyond its fields, a null wrapper, a negative number of zero bytes) stop the model.

### 2.6 FunctionMatch

`overloads` are one or two functions of a name. `RecordFunction` (`HandleFunctionDecl`) appends their rows, any number of times
and in any order (free functions come in the order of the file and again, with methods, from a set of pointers);
`Librarify` takes the first row that fits, by the comparison of LLVM type names, pointers and enums replaced by
their integer types. That the loop ends early once an enum fits, and that enum names are
replaced in one string one after the other, are modelled as they are.

### 2.7 TypeTables

The passes' loops in order: `ReadTypeDefsCsv`, `ReadIdentified` with a `NameField` for each field, `RunFunction`,
`WriteUnnamed`, `Publish`, and for the debugger `LogVariadic`. `TypeName` is the name `basicGetTypeAsString` gives, and
`TakeName` makes one up where there is none. `given` and `logged` remember which names were handed out for which type.
The tables stay after `Publish`, so that a name that Logger is given then is either that of a row or of none
(`LoggedNotMisled`).

### 2.8 PointerInference

A module is, for each pointer, the list of its uses, and a use is what `attemptFindPointerType` reads off the instruction: a type
(`Typed`), another value with what a star more or less makes of its type (`Load`, `Store`, `Stored`, `Same`), a call that passes the pointer
on (`Call`) or a call of it (`Called`). `stack` is the recursion; a frame has the user it is at and the best entry of `possible` so far, as the
loop at the end of the function picks it. `AskRemembered` finds the answer in `determinedTypes`, `AskDeeper` calls itself,
`GiveUp` is the limit of a thousand calls, `SkipCall` the list `visitedFunctions`, which every search shares with those it makes and `Finish` empties at depth 0. `Return` writes the
memory in `getTypeAsString`, at every depth, so a value that lies on a circle is remembered before its own search has ended.
Between searches `Ask` is one of the passes; `given` is what they were told, `cut` where a search was given up.

### 2.9 TypeNames

One source file after the other: `save-typedefs` reads the definitions (`HandleDecl`), `save-func-parms` reads all rows there are
(`ReadTypeDefs`) and then handles the functions in any order, which is how they lie in a set of pointers. A type of the source is a leaf and what clang
writes behind it; `Suffixed` is what `fixTypeName` makes of one more suffix, with the several kinds of name that begin with "unknown". `Lookup`
is the row a controller finds for a name, which may be of another file. In `OrderMattersForClassesOnly` a class counts that a function takes by
value or by `&&`, for which alone `fixTypeName` wants the class to be known; a pointer or `&` to a class that is not is a `void*` in any order.

### 2.10 LoggerPass

The module is a sequence of functions, of which only calls are kept, by basic block. `LibrarifyFunction` is one turn of
the loop of `Librarify::run`, with the early return for variadic functions, the renaming of main and the wrapper at the end of the
module; `LoggerFunction` and `LoggerUser` are the two loops of `Logger::run`, the second over the users a function has, once for each time it is
an operand. The run keeps the target's frames; each knows which entries it has on the log. `LogEnter` and `LogLeave` are the inserted calls, of
which the second is `CallLog`'s own `LogFunctionReturn`. Where a block goes on to is open, so loops, early returns, recursion and
exceptions caught anywhere are all in it.

## 3. Runs

| Run | Expects | Shows |
|---|---|---|
| `call_log` | pass | over exceptions, longjmp, setjmp, signals and exit: `LiveFramesKept`, `LogNeedsStream`, the refinement `ImplementsBrackets`, and `SignalledRunIsClosed` |
| `signal_session` | pass | where `signalHandler` may jump (`HandlerHasFrame`), the guards' use of the table (`GuardsMatchHandler`), what comes back of the table (`HandlersRestored`), how far the report counts (`ReportCounts`, `SignalIsReported`) |
| `print_walk` | pass | when `savePoint` is stale (`SavePointIsOwn`), what a fault costs (`FaultStaysInside`), `PathRemembered`, `NoLoop`, `WalkEnds` over every memory of two objects |
| `type_layout` | pass | for which types the layouts agree (`PrintedWhereStored`, `ElementsEnteredWhereStored`, `ParametersAgree`) |
| `union_printed` | violation | a union is aligned like the struct of the same number |
| `function_match` | pass | which row a function takes: one that agrees with it up to the row's first enum (`ParametersFound`), and its own if no other's does (`OverloadsFound`) |
| `type_tables` | pass | names lead to rows of their type, those handed out before publication (`GivenHaveRows`) and, if to any, those after it (`LoggedNotMisled`) |
| `prompts` | pass | `PublishedIsLive`, `NothingLeaks`, `SkipsNothing`, `ChosenByUser`, `EntryEnds` |
| `union_fields_offered` | violation | the options of union k are counted by enum k |
| `pointer_inference` | pass | the types found have the right depth (`LevelsFound`), are shown by some use (`EvidenceIsReached`), are lost only at the limit (`LostOnlyByDepth`), and every search ends (`SearchEnds`) |
| `type_names` | pass | names can be looked up (`NamesHaveRows`) without end (`NestingEnds`), say what the type is (`HonestNames`), are there for what is defined (`DefinedAreNamed`), and depend on addresses only for classes without a row (`OrderMattersForClassesOnly`) |
| `logger_pass` | pass | from the passes to the log: the tables stay in step (`PointersLead`), the log shows the direct calls in progress (`LogShowsCalls`), the target is one for `CallLog` (`ImplementsCallLog`), the passes end (`PassesEnd`); and `TypeOK`, with the bounds of the tables' pointers |

The runs check no type invariant or other property that the proofs already give and that only repeats the shape of a state; `TypeOK`
of the other modules, `NoUnderflow`, `IndentIsDepth`, `CountIsRows` and `AnswersStand` are theorems (section 5).

Every property of a passing run has a mutant in its module (`X_Something` before `X`): a plausible
mistake in that place of the code, with which TLC finds the property violated.

### 3.1 Bounds, and why they are enough

- `call_log`: three names with `main` the middle one, so that an abandoned name may come before or after a returning one
  in `strcmp` order; the least is setjmp's, as "_setjmp" precedes all letters. Stacks of three names: a live caller, an
  abandoned call and a live call above it. (Stacks of four, five million states, pass as well.) `UIntMod = 64`
  is far beyond what is counted, so a wrap shows as a number near 64.
- `signal_session`: four signals: 0, for which `signal` fails; one inherited as ignored; SIGSEGV; and one behind it in the loops.
  Three nested guards, so that one in the middle saves and puts back `SegFaultHandler` for both of its neighbours; three
  arrivals allow one during installation, one during the run and one during removal.
- `print_walk`: two objects with two pointers and a string each, one with the string first and one with it
  between the pointers: self-loops, two-cycles, shared objects, and strings before and behind a pointer.
- `type_layout`: two definitions of up to three fields: a struct within a struct with a field before and behind it.
  `MaxNesting = 8` is more than two definitions can nest (an array of a struct that has an array of a struct with an array field), so that no
  walk over them is cut short but one that would not end. `MaxCount = 3`: up to three values are entered for a pointer, so that the second and third are placed
  behind one another.
- `function_match`: two overloads of up to two parameters, over an integer, two enums of its type of which the name of one is part of the other's, a pointer,
  an array, and an unnameable type.
- `type_tables`: four struct types nested two deep, of which two have names; three csv rows, so that a name may be there twice or not at all.
- `prompts`: two structs, the first of up to two fields out of a scalar, an unknown type and pointers to both, the second with or pointing
  to the first: all cycles of length one and two, with and without something unknown on them. Two values behind the first pointer, one behind the second:
  a buffer is reallocated while one behind it is being filled. `IntMax = 3` lets `option` wrap within a few reads.
- `pointer_inference`: four pointers in two functions, every module of three instructions over them, in every order, and the longer ones that clang
  makes of a parameter without optimisation: self-loops, circles through loads, stores and calls, recursion. `MaxDepth = 4`
  is within reach of these circles, so that searches are given up in the middle of one; questions are asked in any order and number.
- `type_names`: two names and two files of two definitions, so that a name is defined differently in both, contains the other by value or
  by pointer, or is recorded in one only; types of up to three suffixes; four functions, of which two are methods
  of classes, two take a class by value, one by a pointer and one by `&&`.
- `logger_pass`: `f`, `main`, a variadic declaration and a function whose own name ends in "_wrapper"; blocks of one call or two in a row, by name,
  through a pointer, as an invoke, and with `f` among the arguments. Four names on the log and four frames: main, a
  call in progress, an abandoned one below a live one.

### 3.2 Fairness

- `CallLog`: `WF_vars(ReportUnreturned \/ Close)`: sequential code of `main` with nothing to wait for. The target may run for ever.
- `SignalSession`: `WF_vars(Controller)`: as above, for the statements of `runFunctionWithSignals`. Arrivals are bounded, as a signal that always comes
  again does keep `unhandleSignals` from ending.
- `PrintWalk`: `WF_vars(PrintStep)`: a call of `printType` goes on.
- `PointerInference`: `WF_vars(Search)`: the pass that asked waits for the answer. Nobody need ask.
- `LoggerPass`: `WF_vars(Passes)`: opt runs the passes to their end. Nothing is assumed of the target's run.
- `Prompts`: weak fairness of the steps that get on (`Enters`, `Call`, ...): the user gives, in the end, an answer that is accepted; and of
  `AsksAgain` with a failed stream, where no user is needed. Nothing is assumed about where the input ends or what else is typed.

## 4. Findings

Two runs check a statement of the repository that the code does not keep; each is a counterexample TLC prints.

1. `union_printed`: unions' fields are looked up in the tables of structs (`controllerLib.cpp:573,624`), against `log.md:51`, "actual support for unions". The same
   lookup makes `getTypeByteLength` recurse without end when struct k contains union k.
2. `union_fields_offered`: `controllerLib.cpp:284` bounds a union's options by `enumNumValues`, against `log.md:54`, "added support for inputting unions".

For others there is a cfg of the name of the property, with which TLC finds a counterexample in the module named:

| cfg | Module | What the code does |
|---|---|---|
| `NestedPrintedWhereStored` | `MCTypeLayout` | `getTypeByteLength` aligns each field to its own length and never fills up the end of a struct (`controllerLib.cpp:560`), against `log.md:48`, "fixed several issues in cases of nested structs" |
| `AllOverloadsFound` | `MCFunctionMatch` | `Librarify.cpp:327` leaves the loop over the arguments once an enum has matched, so f(int, int) takes the row of f(Mode, int*), against `log.md:47`, "finally supports overloaded functions" |
| `LoggedHaveRows` | `MCTypeTables` | `Logger.cpp:67` asks for type names after Librarify has published the tables, against `log.md:25` |
| `DereferencedIsTyped` | `MCPointerInference` | a pointer at which a search for another was given up is remembered as `void*` for good (`llvmHelpers.cpp:246`), though it is dereferenced, against `log.md:17` |
| `UnionsAreUnions` | `MCTypeNames` | a union with a name is recorded as a struct (`saveTypedefs.cpp:110`), and `fixTypeName` does not take "union " off, against `log.md:51` |

Also seen, and stated as the premise of a property that holds: a nested struct is entered at the alignment of its first field
(`LargestFirst` in `ElementsEnteredWhereStored`); a row with an array parameter, or with an enum whose name contains an earlier
enum's, is never taken (`NoneMissed` in `OverloadsFound`; `ParametersFound` holds for these too); a string behind a pointer of the same object is read
under a `savePoint` that is stale (`StringsFirst` in `FaultStaysInside`; `SavePointIsOwn` says exactly when). Fields whose names begin with "unknown" but are not exactly that are recorded
(`saveTypedefs.cpp:55`), and have no length: the remainder at `controllerLib.cpp:490` is then one by zero. A main that calls itself is logged
as "old_main", which has no row.

## 5. Proofs

The theorems hold for every value of the constants, under the named `ASSUME`s of the modules, which say no more than that
a bound is a number and a set of the environment is of the right kind. Each proof is that of an inductive invariant, `IInv`
in the `Proofs` module (`MatchIInv` for the second model of `PluginProofs`): one lemma that `Init` establishes it, one for each action that this keeps it, and the properties as parts
of it or consequences.

**CallLogProofs** (`TypeCorrect`, `CallersKept`, `BottomNeverPassed`, `IndentExact`, `NothingLoggedAfterClose`, `LogNests`). Besides the properties
themselves `IInv` needs `StreamInv`, which file or stream the log goes to in each phase, and `FrameInv`, that a signal leaves no call of the target in
progress and that only a live frame can see setjmp return again. `LiveFramesKept` is the heart: `slot` ties each call in progress to its
entry on the stack, the slots increase, so the entry that the loop of `logFunctionReturn` stops at cannot be below that of the call
that returns (`LoopStopsInTime`), and a loop that finds nothing is one a second return of setjmp began. `IndentIsDepth` needs it, because a loop past
the bottom would subtract more than there is. `LogNests` is the refinement of `CallBrackets`: the invariant holds in every state, so each step can be mapped by itself, to
`Open`, `Close`, `CloseAll`, `Abandon` or, from the first second return on, `ReturnAgain`. `CloseRefined` is the step that matters: that the loop
stops at or above the returning call's entry is what puts the new height between that entry and the top. The calls in progress at a second return have no
place any more (`PlacesForgotten`); when one of them returns, all calls made later have returned (`NoneHasPlace`), so that whatever it pops, `FramesKept` goes on
for the calls made later.

**SignalSessionProofs** (`TypeCorrect`, `NoJumpIntoTheVoid`, `GuardsPaired`, `TableRestored`, `ReportExact`).
`PointInv` divides the table at the loops' counter: below it `signalHandler` is installed, above it is not yet, or the other way round.
`GuardInv` says what each nested guard saved: the outermost what was there before, all others `SegFaultHandler`, which is why putting
back the innermost handler does not uninstall it too early. `HeightInv` gives the indentation at every half of a log function;
`RestoreInv` follows the inherited table from the kernel into `all_old_handlers` and back; what `Kept` allows besides is the default, for
entries that a signal met while `unhandleSignals` was at work (`struck`). `HeightInv` keeps the difference of one that a signal between the halves of a log
function leaves (`torn`) up to the report; as the run is over by then, there can be no second.

**ControllerLibProofs** has the theorems of both models of the printing and entering of values. Of `PrintWalk`: `TypeCorrect`, `PathExact`,
`NeverTwiceBehind`, `SavePointExact`, `FaultContained`. `PathInv` says that `printType` is within an object because
of a pointer field of the one before; `SavePointIsOwn` (`SavePointExact`), that `savePoint` is that of the innermost guard exactly until a pointer of the
innermost object has been followed. With both, a fault returns to a frame whose pointer is the last of `enteredPointers`.

Of `TypeLayout`: `PrintsWhereStored`, `OffsetsAgree`, `ElementsWhereStored`, for tables of any size, structs of any number of fields and any number of values entered. The
invariant (`LayoutInv`) says only that fields are of known types; the work is in what the layouts compute. `LengthSteps` and its like show that each walk
over types has, at every depth, the values of one more call (the recursive function exists, by `Induct`); from them the walks agree on scalars, pointers and int enums
(`LeafFacts`), on arrays and structs of these (`ArrayOfLeaf`, `StructOfLeaves`), and printType's leaves are those stored (`StructPrints`). For what is entered, the running positions
of the writer, of the compiler and of the packed buffers are the same kind of recursive function (`Climbs`), of which there is one for given lengths and
alignments (`OneClimb`); hence the offsets of parameters. `OneMore` is the step by which an array of structs is entered: the first field of the
next value, being aligned most, is rounded to just where the compiler, which fills up the end of each element, puts it, and the fields behind it follow as they did
in the first (`MultipleFacts`). `Several` is the induction over the values. Assumed: types may nest three deep (`BoundsAssumption`), as a
struct with a field that is a struct of scalars does.

**PluginProofs** has the theorems of both models of the plugins. Of `TypeNames`: `WrittenHaveRows`, `NamesNestFinitely`, `NamesSayTheType`,
`DefinitionsAreNamed`, `OrderMattersLittle`. A name is a recursive function of the suffixes of its type, for types of any length. `Recursion` shows
that such a function exists, by extending it one suffix at a time, and `Induct` gives induction as a statement of sets of numbers; with both, `SuffixedIsName`
and its like for one suffix become `NamedUpToFacts`, `NameOfNames` and `HonestName` for all. The invariant is about what the plugins remember against
what they have written: `KnownHaveRows`, every name a plugin knows has a row or is that of a class; `RowsAreKnown` and `DefinedAreKnown` the other way round;
`FieldsHaveRows`, a field held by value is of a name with an earlier row, from which it follows that no set of names can hold each other in a circle;
`HandledOrNot`, a function without a row had a type that was refused, and refused names stay so unless they are of classes by value (`NoNameStays`).

Of `FunctionMatch`: `TypeCorrect`, `RowHasLlvmTypes`, `RecordedIsFound`. That the row taken fits is the loop's condition; that a fitting row
has the function's LLVM types up to its first enum is proved from the comparison with the enum names replaced (`FitMeansSameTypes`). For a method two rows are written, and
`RowsComplete` says that the one with `this` comes with the one without.

**TypeTablesProofs** (`TypeCorrect`, `RowsCounted`, `NamesLead`, `LateNamesHonest`). `NamesCounted` counts names and rows in the middle of the loops: the names without a
row are those of the unnamed types the last loop has not reached. `TypesNamed`, `NamesIndexed` and `GivenFit` say of the two maps, and of every
name that was handed out, that it is the type's own and has a row, or stands for a type of `unnamedStructTypes`, which gets one. `LateNamesHonest` follows once all unnamed types have their rows
(`RowsDescribe`): a name made up later is a number beyond the rows.

**PromptsProofs** (`TypeCorrect`, `AddressesValid`, `AllFreed`, `NoStaleChoice`, `NothingSkipped`). The block of a buffer moves with every push, so an address is valid only if
nothing is pushed to its buffer any more: `Ordered` says that once the address of a buffer is due, nothing that comes later goes to that buffer, and
`Published`, that nothing that is left to do goes to a buffer whose address was pushed. `Filled` adds that the heap is exactly the buffers' blocks, from
which it follows that freeing storage and parameters leaves nothing. `ChoiceInv`, that no valid choice is pending while one is asked for, is what makes
a failed stream harmless. Assumed of the types: what pointers, arrays, structs and unions are made of are types again.

`NothingSkipped` says that `isInputableType` is right: what it lets through never leads `inputType` to a type it has no branch for, though it
answers true for any type it is visiting. `LeadsOut` counts the steps to such a type. If a type leads there in n steps and nothing that is being visited
does in as many, it is refused (`NeverLeadsOut`, by induction over n: a shortest way out never passes a visited type). With nothing visited the answer is therefore
exact, and the types accepted are closed under what `inputType` descends to (`EntersEnterable`), which makes `EntryInv`, that all of `todo` is
enterable, inductive. The set of types may be infinite; that the recursive function exists at all is shown by a largest fixed point (`AnswersExist`).

**PointerInferenceProofs** (`TypeCorrect`, `ToldOnce`, `LostAtTheLimitOnly`, `LevelsRight`, `EvidenceReached`). The memory is written in the middle of
searches, on circles, and at the limit, so nothing said of one search alone is inductive. `Justified` says of a value and a type that they are in every
relation the uses keep: one that has what uses show and, with an answer for the value a use leads to, what follows from it. That all of the
memory and of the stack is justified is inductive, as each step follows one use; `LevelsRight` and `EvidenceReached` then each name one such relation, the
types of the right depth and the types that are shown somewhere behind the value. `FrameOK` says that a value a pass was told of is on no frame
any more, which is why its answer stands.

**LoggerPassProofs** (`TypeCorrect`, `RowsLead`, `CallsShown`, `TargetOfLog`). Every function of every module is an instruction sequence the passes rewrite in place while they still hold
uses of it, so the invariant goes by parts. `ModuleInv`: whatever is inserted, calls go to functions of the module (`FunctionSet`), which a longer module only
widens (`SetsGrow`). `TodoInv`: an instruction Logger has yet to look at is still in its block, as bracketing moves instructions and loses none
(`BracketedFacts`, `CallLogged`). `RowsInv`: a pointer is that of a wrapper, which Logger does not touch, for the one function of its row, which keeps its
name when main is renamed (`Renamed` twice is `Renamed`). `MainInv`: main has a row with a pointer, or Librarify has yet to come to it, so the debugger
starts in a function. `FramesInv` follows: a frame is in a block of its function whatever branches and exceptions do.

`CallsShown` needs more than what the frames have open, as a frame may be anywhere in code that was rewritten once for each use of each function it calls.
`NestInv` says of every block that its Enters and Leaves nest around its calls: there is a sequence of what is open before each instruction (`Nestings`) which
is empty at both ends and, at each call, has the called function's name once for every use of it in that call that Logger has dealt with (`DealtWith`).
Bracketing the call once more keeps that (`BracketedBalanced`, `OneMoreDone`) and leaves the other calls as they were (`OthersAsBefore`). In the run a frame
follows the nesting of its block (`ShownInv`); an invoke has nothing open, which is why a frame may leave the middle of its block for a landing pad
(`ThrowNests`). When main starts no use is left, and `DealtWith` is all the uses.

`TargetOfLog` is the refinement of `CallLog`: the instrumented program is a target as that module takes it for granted. Its calls are all that the frames have
open, one frame after the other (`OpenOf`; a recursive function, whose value for frames that grow and shrink at the end is worked out by induction). `LogInv` says by `KeptIn` that the
entries of the open calls lie on the log in their order and under their names, so that the loop of `logFunctionReturn`, which compares names only, stops at or above the
entry of the call it was inserted for; `NestInv` says that this call is the one that was entered last. The two log functions are then `Call` and
`Return` of `CallLog`, an exception or a jump that abandons frames is its `Unwind`, and what the log does not see is a stutter.

Assumed of the targets (`TargetsAssumption`): their names are unique, main is neither variadic nor a wrapper, `old_main` is free, and the calls of a block
are told apart (by their ids in the model, as instructions are by their addresses in the code).

Only model-checked is liveness (`SignalledRunIsClosed`, `SignalIsReported`, `WalkEnds`, `EntryEnds`, `SearchEnds`, `PassesEnd`), which is out of the
prover's reach.

## 6. Not modelled, and why

- **Uses that change under the search.** The passes insert instructions between questions, and `PointerInference` has one list of uses for all of
  them; what they insert loads and stores their own buffers. Constants, which have no function, are left out as well.
- **Values of enums**, and their names: they are copied from row to table.
- **Intrinsics** ("llvm.*"), which neither pass looks at, and the **stack of the machine**: the buffer of a logged call is an `alloca` where the call is, so in a
  loop the stack grows with every turn.
- **Calls of variadic functions from the menu**: their pointer is null (`Librarify.cpp:387`), and the call of it is where `Prompts` stops.
- **Printing of returned values** in librarify mode is `printType` again, without the log.
- **Several threads of the target.** The run-time library keeps its state in plain globals; the repository has no threaded example.
- **Locks of the C library.** A signal in the middle of `malloc` or `fprintf` jumps out of it with its lock held; the library's inner state is not part of this code.
- **Pass registration, Makefiles, scripts**: no state. **Examples, vendored code**: not the program's logic.

## 7. What is left

1. `Prompts` and `PrintWalk` in one model: values that were entered are printed again when the function returns.
2. Layout of the values behind pointers to unions, once unions have tables of their own in the code.
