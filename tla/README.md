# rdyncall: specifications, checks and proofs

rdyncall is an R package that calls C functions without compiled glue. It loads
shared libraries, converts R values by a *signature* string, calls through the
dyncall library, and lets C call R functions back. This directory holds TLA+
models of its stateful parts, TLC configurations that check them, and theorems
checked by TLAPS.

## 1. The system

| Component | Code | State | Operations | Talks to |
|---|---|---|---|---|
| Callback objects | `src/rcallback.c`, `R/callback.R` | `R_Callback` per callback (flag, reason, error record, four counters, descriptors, preserved R objects), the thunk, the R external pointer; one `R_CallbackFrame` per call in progress | `ccallback()`, the handler, the finalizer, `callback_status/is_active/last_error` | called by foreign code; calls R |
| Foreign calls | `src/rdyncall.c`, `R/dyncall.R` | ten CallVMs made by `.onLoad` and shared by all calls; descriptors and the locals of each `C_dyncall` in progress | `dyncall()`, `dyncall.*()`, `dyncall_variadic()` | calls foreign code, which may call a callback |
| Argument placement | vendored `dyncall_callvm_*.c` and `dyncall_aggregate*.c`, `dyncallback/dyncall_args_*.c` and `dyncall_callback_*.c`, for ten processors | counters of registers and stack bytes on either side | `dcArg*` (caller), `dcbArg*` (callback) | used by the two above |
| Signatures | `R/dyncall.R`, `R/callback.R`, `src/rsignature.c`, the loops of `C_dyncall` and `rcallback_invoke` | a place in a text, stars, the convention in force, layouts made and used | R and C readers of one text; scanners of members | foreign calls, callbacks, aggregates |
| Library handles | `src/rdynload.c`, `R/dynload.R` | an address behind a tagged external pointer; the loader's reference count; the buffer of `dynpath()` | `dynload`, `dynunload`, `dynsym`, `dynpath`, finalizer | symbols are used by foreign calls |
| Search and binding | `R/dynfind.R`, `R/dynbind.R` | none of their own; wrappers keep symbol addresses | `dynfind`, `dynbind` | handles, foreign calls |
| Dynports | `R/dynport.R` | a file parsed to a list; packages generated, installed and loaded | `dynport`, `dynport_install_package`, `dynport_load_into`, `dynport_clear_lib` | `R CMD INSTALL`, R's namespaces |
| Aggregates | `R/struct.R`, `src/rpack.c`, `R/pack.R` | type descriptions; raw vectors or external memory | layout, `$`, `$<-`, `pack`, `unpack`, bitfields | descriptors of the two call directions |
| Helpers | `R/utils.R`, `src/rutils*.c`, `src/rpackage.c` | none | pointers, strings, floats, routine registration | |

R is single threaded. What is concurrent is a *stack*: while native code
allocates or evaluates, R code runs, namely the function of a callback or the
finalizers of a collection, and that code may enter native code again. Nearly
every hard behaviour of the package comes from this re-entry: a callback whose
last reference disappears during its own call, a nested failure that disables
the callback of a call still running, a foreign call that uses the CallVM a
suspended one has filled. The others are partial failures (an R error is a
`longjmp`: what it skips is not undone) and limits that are not reported.

What makes each component correct:

* callbacks: nothing freed is used; every call is answered, a failed one by a
  zero in the right place; a failure disables for good, is counted once and
  leaves a diagnostic; preserved objects are released exactly once;
* foreign calls: the function finds the arguments of its own call, where its
  signature puts them; descriptors are freed once;
* argument placement: caller and callee agree on every argument and on the
  result, nothing is overwritten, and the stack is cleaned by what was pushed;
* signatures: every reader of a text understands the same by it, and none reads
  past its end;
* library handles: an unload happens once, a protected symbol keeps its library,
  a library nobody needs goes away;
* dynport packages: an installation leaves the new package, the old one, or an
  error that says so; what is loaded is what was asked for;
* aggregates: offsets follow the C rules; a field read back is the number written,
  as C converts it, and its neighbours are untouched.

## 2. Modules

| Module | Models | Extends |
|---|---|---|
| `CallbackContract` | what a callback pointer promises foreign code | - |
| `Callback` | `rcallback.c` and the wrapper of `callback.R` | - |
| `CallbackProps` | properties and the refinement mapping | `Callback` |
| `MCCallback` | small instances | `CallbackProps` |
| `StackLemmas` | facts about a stack of frames | - |
| `CallbackProofs` | theorems: types, balance, alignment, lifetime, diagnostics, refinement, counters | `CallbackProps`, `StackLemmas` |
| `CallVM` | `C_dyncall` on the shared CallVMs | - |
| `CallVMProps`, `MCCallVM` | properties, instances | `CallVM` |
| `CallVMProofs` | theorems | `CallVMProps`, `StackLemmas` |
| `DynportContract` | what `dynport()` and `dynport_clear_lib()` promise the owner of the directories | - |
| `DynportPackage` | generated packages of `dynport.R` in shared libraries | - |
| `DynportPackageProps` | properties, inductive invariants and the refinement mapping | `DynportPackage` |
| `MCDynport` | small instances | `DynportPackageProps` |
| `DynportPackageProofs` | theorems | `DynportPackageProps` |
| `Layout` | structs, unions and bitfields of `struct.R`, and the bits `rpack.c` moves | - |
| `LayoutProps` | properties and the inductive invariant | `Layout` |
| `MCLayout` | small instances | `LayoutProps` |
| `LayoutProofs` | theorems | `LayoutProps` |
| `Dynload` | handles, symbols, `dynpath()` and `dynbind()` | - |
| `DynloadProps`, `MCDynload` | properties and the inductive invariant, instances | `Dynload` |
| `DynloadProofs` | theorems | `DynloadProps` |
| `Signature` | the readers and scanners of signatures | - |
| `SignatureProps`, `MCSignature` | properties, texts | `Signature` |
| `SignatureProofs` | theorems | `SignatureProps` |
| `ArgPlaces` | places of bytes, cursors, steps of a side | - |
| `AggrClasses` | the classes an aggregate's fields decide | - |
| `PassX64`, `PassX86`, `PassArm64`, `PassArm32`, `PassRiscv64`, `PassPpc32`, `PassPpc64`, `PassMips`, `PassSparc` | both sides of one processor's conventions | `ArgPlaces` |
| `ArgPassing` | a call from `dyncall` to a `dyncallback` | `AggrClasses`, instances of the `Pass` modules |
| `ArgPassingProps`, `MCArgPassing` | properties, aggregates | `ArgPassing` |
| `ArgPassingProofs` | theorems | `ArgPassingProps` |

### Callback

`Callbacks` are objects given by their signature (`Args`, `Ret`). Per callback:
`live`, `held` (is the external pointer reachable?), `registered` (does foreign
code keep the pointer?), `preserved`, the fields `disabled`, `reason`
(`disable_reason`), `cError` (`last_error`), `rError` (`state$last_error`, written
by the `tryCatch` wrapper), and the four counters. `stack` is the C stack of
`R_CallbackFrame`s.

| Action | Code |
|---|---|
| `Create`, `CreateFails` | `C_callback`; a jump out of it, from an allocation or the `Rf_error` in `rcallback_new_aggr` |
| `Finalize` | `R_callback_finalizer` |
| `Invoke` | `R_dcCallbackHandler` and the head of `rcallback_invoke` |
| `FetchArgument`, `FetchUnsupported`, `FetchInvalid` | one turn of the argument loop |
| `StartEval`, `EvalAborted`, `Return*` | `R_tryEvalSilent`, and what follows by result |
| `EvalError`, `EvalFailed` | the wrapper's `tryCatch` stores its record and rethrows; `C_callback_disable_error` classifies and counts |
| `RecordError`, `PreserveRecord` | `C_callback_set_last_error` up to the assignment of `rdata->last_error`; `R_PreserveObject` |
| `BoundaryExit` | the branch of `R_ToplevelExec` that catches a jump |
| `ZeroReturn` | `C_callback_zero_return`, with `rcallback_drain_arguments` |
| `Leave` | the handler returns |
| `Register`, `Unregister`, `DropReference` | foreign code and the user's R code, as the documentation asks of them |

The call is split exactly where R code can run: between arguments (each is
allocated), in the evaluation, while the wrapper's `stop(err)` unwinds (`"thrown"`),
while an error record is allocated (`"record"`), and while the cell that preserves
it is (`"stored"`). There `RRuns` lets every R-side action and a nested `Invoke`
happen. Each of the last two can also jump to the boundary: out of `"record"` no
record is left, out of `"stored"` one that nothing preserves (`Dangling`). What is
read through such a pointer is undefined, and `Classified` takes either outcome.

### CallVM

`vm` has the two machines whose sharing matters: the default one and the one of
`dyncall_variadic`. The machine keeps its mode and the arguments placed so far,
each with its call, its position and the mode that placed it. `frames` is the
stack of `C_dyncall`s. `Begin` is the head up to the argument loop, `LoadArg` and
`SwitchMode` one turn of it, `Fail` any `Rf_error` (of the loop, of an allocation
or of a malformed typed result), `Allocate` the result of an aggregate call (the
only allocation between the loading and the call), `Call`, `ForeignReturns`,
`Finish` the rest. Placement is that of the AArch64 backend on macOS, where the
mode decides between registers and vector. Converting an argument allocates
nothing, so no R code runs between `Begin` and `Allocate`.

The vector is kept word by word (`mem`), because it is filled from both ends: an
aggregate of more than 16 bytes is copied below the last copy, counted from the
end, and its address takes a register or a word at the front. Registers and front
are copied to the machine stack by the call; the copies at the end stay in the
shared CallVM for as long as the function runs.

### DynportPackage

One package name. `installed` is what the `DESCRIPTION` in each library directory
says: nothing, a package that was not generated (`Ordinary`), or the md5 sum of
the port file it was generated from, represented by the file's contents.
`loaded` and `attached` are per R session. `call` is the call each session is in,
with its arguments, and remembers what was installed (`was`) and loaded (`ran`)
when it began. Directories are shared, so each look at the file system is a step.

| Action | Code |
|---|---|
| `Begin` | `dynport()` or `dynport_install_package()` up to `dynport_prepare_install` |
| `CheckLoaded`, `CheckInstalled`, `Remove` | the three parts of `dynport_prepare_install` |
| `Install` | `dynport_install_generated_package` (`R CMD INSTALL`, external) |
| `Load` | `dynport_load_package` |
| `Clear`, `ClearUnlink` | `dynport_clear_lib` |
| `LoadByHand`, `UnloadByHand` | the user's own `library()` and `unloadNamespace()` |
| `InstallByHand` | an `install.packages()` of a package with that name, by anybody; while calls are in progress only if `Intrude` |

External are R's `library()` (it keeps a namespace of the same version and
unloads one of another), `unloadNamespace()` (it may refuse), `unlink()` (it may
remove nothing and the code does not ask) and `R CMD INSTALL` (it installs, or
restores what was there).

### Layout

`decl` is a declaration: for each field a type, an array length and a width (or
none). `layout` is the kind of aggregate and its directives. `laid` grows by one
field per turn of a loop; `offset`, `bitpos`, `maxAlign` and `maxSize` are the
variables of the code. The first loop (`parse_aggregate_types`) counts bytes and
is all there is without bitfields; with one, its result is thrown away and the
second loop (`make_aggregate_info`) counts bits. `mem` is an object made by
`cdata()`, one cell per bit.

| Action | Code |
|---|---|
| `ParseType` | one turn of the loop of `parse_aggregate_types` |
| `ParsedPlain`, `ParsedBits` | its end, without and with bitfields |
| `LayOrdinary`, `LayZeroWidth`, `LayBits`, `Refuse` | one turn of the loop of `make_aggregate_info` |
| `LaidBits` | its end, the finished type and an object of it |
| `Store`, `StoreUndefined`, `StoreAggregate` | `$<-.struct` with `C_pack_bitfield`, `C_pack`, `pack_aggregate_array_field` |

Reading (`Loaded`) changes nothing and is an operator. A value is an R integer or
an R double. An integer goes into the field modulo its width, but into an unsigned
bitfield by way of `uint32_t`, as in the code (`Converted`). A double is cast, to 64
bits for a bitfield and to the type of the field otherwise; C defines the cast for
what the target holds (`Defined`), and everything else, negative doubles in unsigned
fields among it, is `StoreUndefined` with each of the `Outcomes` processors give. A
field of a type in `DoubleTypes` is shown to R as a double, rounded to `DoubleBits`
significant bits (`Shown`). Floats, doubles and pointers are patterns of bits. The
widths (`IntBits`, `LongBits`, `DoubleBits`) are constants. Bits are numbered as on
little-endian machines. `assigned` is a history variable: the number each field must
hold, or nothing where C leaves it open.

### Dynload

`links` is the linker's reference count of a library. `handle` and `pointer` are
the R external pointers to libraries and symbols; `held` says whether an R
variable refers to one, and `HandleReached` and `PointerReached` add what the
collector sees besides: wrappers, the arguments of calls in progress, and the
protected value of a pointer. `stack` holds the operations that R code can
interrupt, `buf` is the static buffer of `C_dynpath`.

| Action | Code |
|---|---|
| `DynLoad`, `DynUnload` | `C_dynload`, `C_dynunload` and their wrappers |
| `CollectHandle`, `CollectPointer` | the collector; the finalizer that `auto.unload` registers |
| `DynSym`, `OffsetPtr` | `C_dynsym`, `C_offsetptr`, with what the new pointer protects |
| `Call`, `Return` | a foreign call through a symbol (its own steps are in `CallVM`) |
| `DynPath`, `PathQuery`, `PathReturn` | `C_dynpath`, split at its two allocations |
| `Bind`, `BindLoad`, `BindNext`, `BindUnresolved`, `BindFails`, `BindReport` | `dynbind()`, an entry at a time |
| `DropHandle`, `DropPointer`, `RemoveWrapper` | R variables change |

### Signature

A text is read from left to right and nothing else happens meanwhile, so a
behaviour is one reading: the state is the reader at work (`reader`), its place
(`pos`) and what it has gathered. The order of the readers is the code's. A
call: `Layouts*` (`dyncall_aggregate_layouts`, R), then `Loads*` and `Returns*`
(`C_dyncall`). A callback: `Rewrite*` (`callback_signature_info`, R), `Count`
(`C_callback`), then `Fetch*` and `Answer` (`rcallback_invoke`). `ScanType`,
`ScanLength`, `ScanToken`, `ScanEnd` are `C_scan_signature_tokens`, `ScanField`
and `ScanTailEnd` are `C_scan_field_tail`, `Decimal` is
`rsignature_parse_decimal` with its test for overflow.

A reading ends in one of `Over`: read (`done`), an R error about the text
(`refused`), the callback disables itself (`invalid`), an error that no text may
cause (`internal`), or a reader that has left the string (`beyond`). `asked` is a
history variable: what a text was written to say.

### ArgPassing

A *cursor* stands for the counters of one side (`mIntRegs`, `reg_count`,
`stackSize` and their like), a *place* is the sequence of cells, bytes of
registers or of the stack, that hold an argument. Each `Pass` module has `Put`
for the caller (`dcArg*` on its CallVM and the assembly kernel that loads the
registers) and `Get` for the callback (`dcbArg*` on its `DCArgs` and the stub that
saves them), translated from two files each. `Pass(t)` takes both one argument
further. `result` is the aggregate the call returns, `put.hidden` and `got.hidden`
the register in which each side expects the address for it.

`AggrClasses` computes the descriptor of an aggregate as `dcAggrField` and
`dcCloseAggr` do, with the classes of the System V ABI
(`dc_get_sysv_class_for_8byte`, its integer conversions included) and the
homogeneous floating-point aggregates of AArch64; `AbiClasses` is an independent
definition from the ABI.

## 3. Runs

| Run | Question | Bounds |
|---|---|---|
| `callback_core` | the safety properties and the refinement of the contract | 2 callbacks (`s<T>)<T>`, `s)Z`), depth 2, 2 calls each |
| `callback_returns` | liveness | `s?<T>)<T>`, `)v`, depth 3, 2 calls each |
| `callback_lifetime` | is the documented lifetime rule enough? (no) | as `callback_core` |
| `dyncall_core` | what holds of nested calls | 5 signatures, 2 registers, 8 words, copies of 4 words, depth 3, 3 calls |
| `dyncall_finalizer` | does every call deliver its arguments? (no) | 2 signatures, depth 2 |
| `dynport_single` | installing, loading, clearing with every step that may fail, ordinary packages that come between calls | 1 session, 2 directories, 3 contents (two of one version), 4 calls |
| `dynport_shared` | does it hold when sessions share a directory? (no) | 2 sessions, 1 directory, 2 contents, 3 calls, never overlapping |
| `layout_fields` | layouts, and what fields remember | up to 3 fields of 16 shapes, 5 layouts, types of 1 and 2 bytes, 2 assignments of the integer -1 or the doubles -1 and 173; `IntBits` 8, `LongBits` 16, `DoubleBits` 10 |
| `dynload_core` | links, protection and automatic unloading | 1 library, 2 handles, 2 symbols, 2 names, 2 tables, 1 operation at a time, 2 links |
| `args_agree` | do caller and callback agree? | 23 conventions, 9 scalar types, 16 aggregates, up to 20 bytes of stack behind the registers |
| `args_nested` | are nested aggregates classified as the ABI says? (no) | System V, 4 aggregates |
| `signature_core` | do the readers agree, and with what is meant? | texts of up to 5 characters or 5 pieces, signatures of up to 2 arguments (3 of a variadic call), `IntMax` 25, `BufSize` 2 |

Two calls of one callback at depth two are what a nested failure needs; the
second callback makes failures of different callbacks interleave, and its string
return is refused after the evaluation. Depth three in `callback_returns` adds a
frame that is neither first nor last. In `CallVM` three calls are a caller, a
call nested in it and one after both; two registers and a pair make an argument
spill, and copies of four words let two of them, or one and the arguments, meet in
the middle of the vector. Two directories are what a second copy of a package
needs, two contents of one version what makes `library()` keep the wrong one, and
four calls of a session are install, rebuild, clear and a call after them.

Three fields are what two bitfields of one unit and a neighbour, or a bitfield
between members of other types, need; one and two bytes are enough to have units
of different size. With R integers as wide as one byte, the fields of two bytes are
the `long`s of the instance: a negative integer fills them by its sign in one place
and by zeroes in another, 173 is out of the range of the signed byte, and 65535 has
more digits than a double. The shapes include those that must be refused.

Two handles of one library are what a second link needs, two symbols what
`offset_ptr()` needs, and one operation in progress already lets everything else
happen in the middle of it. Calls grow argument by argument until 20 bytes of stack
are filled behind the registers: enough for a double that has to be aligned, an
aggregate that fits half, and arguments after both, in every convention and after
every mixture that uses the registers up. Aggregates are nested two deep and at
most 24 bytes. In five characters fit a prefix, a pointer, a `<` without its
`>` and a result; in five pieces two aggregates and a result behind stars. The
written signatures add longer ones, and an `IntMax` of 25 lets the product of two
lengths overflow that are in range themselves.

**Properties of callbacks.** `MemorySafe`: no frame and no registration of a
freed callback (under `HoldThroughCall`, see below). `CountedOnce`: no call is
settled twice and, while a callback is active, every finished call is a success.
`ReasonAgrees`: status and last error name the same reason, unless a condition the
wrapper has recorded is still on its way (a nested call that fails in between then
reads a record that is not its own) or the record is dangling. `DescriptorAligned`:
an aggregate zero is written with the native cursor behind the last argument.
`PreserveBalance`: five objects, a sixth only for an error record, all of them and
no other released by the finalizer; a creation that fails keeps what it had, of
which the property says nothing. `DiagnosticKept`: once there is an answer to
`callback_last_error()` there is one for ever. `ContractSpec`: the handler
implements `CallbackContract`. `ForeignCallReturns`: every call is answered.

**Properties of foreign calls.** `ArgsDelivered` is what the manual promises and
what the code does not keep. `OwnArgsDelivered` is what holds: a call without an
aggregate result, whose arguments and copies fit, delivers exactly its own, each
whole, whatever runs in between. `VariadicModes`: an argument of `dyncall_variadic` is placed by the
mode its own signature asks for. `DescriptorsFreed`: without a failed call no
descriptor outlives its call, and `TypeOK` that none is freed twice.

**Properties of dynport packages.** `LoadedMatches`: when `dynport()` returns, the
session has attached what it asked for. `LoadedOnDisk`: a loaded namespace keeps
the directory it came from. `OrdinaryKept`: packages rdyncall did not generate, installed while no call runs, are
never replaced, removed or unloaded by a call. The run has one session; that
sessions may overlap is proved (`OrdinarySafe`).
`ContractSpec`: for one session the calls implement `DynportContract`, where a call
changes the state once, when it answers: a success has installed and loaded what
was asked for, a failure has changed nothing but a free place and, with
`rebuild`, what it gave up on purpose. The mapping shows the state a call found
(`was`, `ran`) for as long as it runs; every case of the contract is needed in
this run. `FailureKeeps`, what the contract means for the state after a failure
without `rebuild` (nothing is destroyed), is proved but not checked by a run of its own.

**Properties of layouts.** `FieldsDisjoint`: fields of a struct lie one behind the
other, fields of any aggregate inside it. `FirstFit` is a definition
independent of the loops: a field begins at the first place that suits it, a `:0`
closes the storage unit, the size is the least that suits the strictest field. With
`@pack` the alignments are those of the documentation, which for bitfields are
stricter than GCC's, and a bitfield without a name counts, which it does not in the
System V ABI of x86-64 (it does on ARM). `UnitsInside`: the storage units a by-value call is
described with lie inside the aggregate (not under `@pack`). `Remembers`: a field
reads as the last number assigned to it, converted as C would and shown as R does.
Excepted are doubles whose cast is undefined, nested aggregates, whose assignment is
lost, and unsigned bitfields wider than an R integer, where the code does not keep it
(`RemembersWide`). `OneFieldChanges`: an assignment changes
bits of one field only.

**Properties of library handles.** `LinksCover`: each handle that is not cleared
owns one link, so none is closed twice, however `dynunload()` and the finalizer
meet. `StaysWhileUsed`: while R can reach a symbol that asked for protection, in
a variable, a wrapper, an argument of a running call or through `offset_ptr()`, its
library stays mapped, unless the user unloads it. `AutoUnloads`: a library all of
whose handles unload automatically is unmapped once nothing needs it.

**Properties of argument placement.** `Agree`: the next argument, of any type, is
where the callback will look for it. `NothingOverwritten`: it is not put over an
earlier one nor over the result's address. `CleanedUp`: where the callee cleans the
stack, the stub removes what the caller pushed. `ReturnAgrees`: both sides pass
the result in the same registers, or an address for it. `ClassesRight`: an
eightbyte goes to the kind of register the ABI asks for.

**Properties of signatures.** `LayoutsFit`: for any text, native code finds the
layouts R code has made, each of the type named, and uses all of them.
`StaysInside`: native readers do not leave the string, with one exception: the
signature of a callback in which no `)` ends the arguments (`EndsArguments`) is
counted past its end. `ReadsAsWritten`: a documented signature is read as it is
meant, by either direction, and so are its members (of a call whose result the code
does not know, only the arguments): their types in order, each with
the product of its array lengths, or refused where an `int` cannot hold it.
`TokensTile` and `TailSplit`: members with their array lengths, and names with
their widths, cover their text without a gap or an overlap.

**Fairness.** `FairSpec` of `Callback` asks weak fairness of `HandlerStep`, the
sequential C code of the innermost call. It assumes that an R function returns,
fails or is interrupted. It is not asked of R code that starts new calls.
`FairSpec` of `Dynload` asks weak fairness of the collection of each object: R
collects again and again as long as it runs, and an unreachable object stays
unreachable until it is collected. Nothing is asked of users.

**What the violations show** (details in `PROJECT.json`, "findings"):

1. `callback_lifetime`: the documentation lets an R function unregister its
   callback and drop the reference while its call runs; a collection then frees
   the running call;
2. `dyncall_finalizer`: a finalizer run by the allocation of an aggregate result
   can replace the arguments of the call;
3. `dynport_shared`: `dynport()` compares its port file with the directory a
   namespace was loaded from, not with what was loaded, and keeps bindings that
   another session has replaced;
4. `args_nested`: the System V class of a struct nested behind the beginning of
   an eightbyte is computed from the wrong elements of it, or from none.

**Stated, and not kept by the code.** No run checks these; put into the configuration
named, each is violated within a few steps.

* `RecordKept` (`callback_core.cfg`): `last_error` is assigned (`rcallback.c:247`)
  before the record is preserved (250). A jump out of `R_PreserveObject` leaves a
  record that nothing preserves, where `man/callback.Rd:96` says that an error once
  recorded is returned;
* `OrdinaryKept` with `Intrude = TRUE` (`dynport_single.cfg`): what is installed
  between `dynport()`'s look at a place (`dynport.R:1304`) and its own installation
  there (1580) is replaced without a word;
* `RemembersWide` (`layout_fields.cfg`): a negative integer goes into an unsigned
  bitfield by way of `uint32_t` (`rpack.c:181`), so -1 in an `L` bitfield of 40 bits
  reads as 2^32 - 1, and as 2^64 - 1, or what a double makes of it, in an ordinary `L`;
* `AlignedAsCompiled` (`layout_fields.cfg`): a `:0` raises the alignment of the whole
  (`struct.R:566`), so `struct { char a; int :0; char b; }` has 8 bytes, as on ARM,
  where on x86-64 it has 5; `man/typeinfo.Rd:70` promises the layout of the host
  machine;
* `ReadsAsWritten` without its exception (`asked.answered`): a call refuses the
  results `x` and `*i` and takes `**c` for a string (`rdyncall.c:854-884`), all of
  which `man/dyncall.Rd:157-159` documents.

**Met while modelling** (one step or one reading of the code settles them):

* a callback disabled by `boundary_error` has no `callback_last_error()`;
* a calling convention prefix outlives its call (also named in `TODO`);
* a `dyncall()` made from a callback of a callee overwrites the large aggregates
  the callee was passed by value;
* assigning to a field that is itself a struct or union is silently lost;
* a finalizer that calls `dynpath()` replaces the answer of the `dynpath()` it
  interrupts;
* `dcVecAppend` ignores an argument that does not fit the vector (which is why
  `OwnArgsDelivered` is stated for calls that fit), and nobody reports it;
* the copy of a large aggregate that does not fit is written below the beginning of
  the vector (`dyncall_callvm_arm64_aggr.c:187`); `Place` refuses it, so what it would
  overwrite is not modelled;
* on ARM hard float the caller puts a float that finds no register on the stack,
  and the callback takes it from a core register as long as one is free;
* a callback signature without a `)` is counted past the end of its string.

## 4. Proofs

`CallbackProofs` proves, for all constants that satisfy `ConstantsAssumption`:

| Theorem | Statement |
|---|---|
| `TypeInvariance` | `Spec => []TypeInv` |
| `TypeCorrect` | `Spec => []TypeOK` |
| `PreserveBalanced` | `Spec => []PreserveBalance` |
| `ZeroReturnAligned` | `Spec => []DescriptorAligned` |
| `HeldIsSafe` | `HoldThroughCall => (Spec => []MemorySafe)` |
| `RegisteredIsLive` | `Spec => []NoDanglingRegistration` |

`TypeOK` is not inductive: `Finalize` subtracts from `preserved`, which stays a
natural number only by `PreserveBalance`, in every state between the record and
`R_PreserveObject` as well; that one needs to know that a callback
not yet created has no error record (`Fresh`) and that a frame about to store a
record has a reason to store. So the invariant `TypeInv` joins types, balance,
`Fresh` and well-formed frames (`GoodFrame`, which also says that the native
cursor and `frame->next_argument` agree). Alignment follows from `GoodFrame` and a
lemma about the drain loop. `HeldIsSafe` adds `HoldInv`: what runs or is registered
is held, and what is held is live. Without `HoldThroughCall` only the half about
registrations remains, and run `callback_lifetime` shows why.

It proves further:

| Theorem | Statement |
|---|---|
| `ImplementsContract` | `Spec => ContractSpec`, the refinement of `CallbackContract` |
| `EachCountedOnce` | `Spec => []CountedOnce` |
| `ReasonsAgree` | `Spec => []ReasonAgrees` |
| `DiagnosticsStay` | `Spec => DiagnosticKept` |

A failed call may still have its record to store while R code, and with it other
calls of the same callback, runs. `ReasonInv` says what such a call carries: its
callback is off, and if only one failure was counted, its reason is that one's
(`Pending`), unless the wrapper's record of a call not counted yet lies in between; and that an active callback has no failure and no record
(`Diagnosed`). This gives `ReasonAgrees`, and it is what the refinement needs at
`BoundaryExit`: the jump out of a call that was storing its record must be a
stutter of the contract, and is one because the callback is off already. Every
other step is `Enter`, `Fail`, `Succeed`, `AnswerZero`, `Leave` or a stutter.
`CountedOnce` is inductive with `ReasonInv`: a step closes at most the innermost
call, which takes one element from the set of open calls (`OpenMoves`).

`CallVMProofs` proves, for all functions, signatures, numbers of registers and
words, and any nesting (`CallVMAssumption`):

| Theorem | Statement |
|---|---|
| `TypeCorrect` | `Spec => []TypeOK` |
| `NoDescriptorLeaks` | `Spec => []DescriptorsFreed` |
| `OwnArgsArrive` | `Spec => []OwnArgsDelivered` |
| `VariadicModesKept` | `Spec => []VariadicModes` |

`Finish` subtracts from `descriptors`, so types need the books of the frames:
`Accounted` says that the descriptors of the calls in progress add up to the
allocated ones, less those of failed calls (`TypeInv`). The two others come from
`LoadInv`. Only the innermost call can be loading, because R code runs nowhere
else while arguments are placed; so what a call has put into the shared machine is
touched by nobody until it calls or allocates, and what comes after that it does
not read. While it loads, its machine holds exactly the arguments up to its place in
the signature (`LoadedIn`), each whole: values below `used`, copies in the `copied`
words at the end (`Solid`), and `used + copied` within what `Fits` grants to the
tokens read (`RoomLeft`). `dyncall_variadic()` begins with a prefix, so the mode an
earlier call left is replaced before the first argument (`ModesIn`).

`DynportPackageProofs` proves, for any number of sessions, directories and contents:

| Theorem | Statement |
|---|---|
| `DynportTypes` | `Spec => []TypeOK` |
| `OrdinarySafe` | `~Intrude => (Spec => OrdinaryKept)`, in every interleaving of the sessions |
| `AloneLoadedMatches`, `AloneLoadedOnDisk`, `AloneFailureKeeps` | `Alone => (Spec => []P)` |
| `AloneImplementsContract` | `Alone => (Spec => ContractSpec)`, the refinement of `DynportContract` |

`OrdinaryKept` rests on `OrdinaryInv`: a call past its checks works on a directory
that holds no ordinary package, and none becomes one while it runs; that is why
looking first and acting later is harmless between sessions, and why it is not if
`Intrude`. `TypeOK` is proved and in no run. The others fail when sessions share
a directory (`dynport_shared`), so they assume `Alone`: one session, and not `Intrude`. The
invariant `AloneInv` joins them because each needs the others: `Ready` says what
a step may rely on from the checks before it (what is loaded has the requested
contents once `CheckLoaded` is passed), and for that `LoadedOnDisk` must turn
what the directory says into what is loaded; `Keeps` carries the state at the
beginning of a call without `rebuild` to the step that fails. The refinement adds
`ContractInv`, which does the same for every call: `Recalls` relates what is
installed and loaded in the middle of a call to what it found, so that the step
that answers (`AnswerSucceeds`, `AnswerFails`, `ClearedStep`) has the contract's
whole effect and the steps before it (`InnerStep`) have none.

`LayoutProofs` proves, for all types, sizes, alignments, directives and values:

| Theorem | Statement |
|---|---|
| `LayoutInvariant` | `Spec => []OrderInv` |
| `LayoutTypes` | `Spec => []TypeOK` |
| `FieldsApart` | `Spec => []FieldsDisjoint` |
| `OthersUntouched` | `Spec => OneFieldChanges` |
| `LaidOutFirstFit` | `Aligned => (Spec => []FirstFit)` |
| `UnitsStayInside` | `NaturallyAligned => (Spec => []UnitsInside)` |
| `FieldsRemember` | `Spec => []Remembers` |

`FieldsDisjoint` speaks of finished layouts only; `OrderInv` says the same of
every turn of a loop, with the cursor in place of the end: no placed field reaches
past it, and no field is placed before it. The latter is arithmetic: `AlignUp`,
`BytesUp` (rounding never goes back) and `AlignedOnByte` (a position aligned to a
storage unit is on a byte, which keeps the empty field of a `:0` in order).
`LaidOutFirstFit` needs `Aligned`, that no type has the alignment 0 (which the code
takes for no request). Its invariant `FitInv` says that in the loop whose result
will be kept the cursor is the end of the last field, and that every field so far is
where it should be; `StrictInv`, that `max_align` is the alignment of the strictest
field so far. What is left is arithmetic of `\div` and `%` by a number that is
not known: `align()` finds the first multiple (`AlignFirst`), rounding a bit cursor
to bytes first skips none (`OrdinaryFirst`), and the test of `FirstBit` is exact
(`BitsFirst`).
`UnitsStayInside` needs `NaturallyAligned`: of two alignments the smaller divides the
larger (powers of two do), and an integer type is aligned by its size. Then a
unit and the size are multiples of the unit's size, and the unit begins before
the field ends (`UnitInv`). The second half is a real condition: on 32-bit x86
Linux a `long long` is aligned by 4, `struct { long long a : 1; }` has 4 bytes, and
the unit handed to the descriptor would have 8.
`FieldsRemember` needs no condition beyond those in `Remembers`. Its invariants are `ShapeInv` (a placed field
has the bits its declaration asks for) and `MemInv` (every bit of every element is
the one of a number that the type can hold); TLC checked both before the proof. A
store keeps them in its own field because reducing a number keeps its low bits
(`ReducedHeld`), as does extending it with zeroes if the field is no wider than what
is extended (`ConvertedBits`), and in its neighbours because they share no bit (`CellsApart`).
The reading is `DecodedHeld`: the sum of the bits of a number that `w` bits can
hold is that number, after the sign. The sum and the powers of two (`Power`) are
recursive functions; what they compute is shown by looking at the least argument
where they would differ (`FirstPlace`).

`DynloadProofs` proves, for any number of libraries, handles, symbols and nested
operations:

| Theorem | Statement |
|---|---|
| `DynloadTypes` | `Spec => []TypeOK`: no link count becomes negative |
| `LinksCovered` | `Spec => []LinksCover` |
| `ProtectedStays` | `Spec => []StaysWhileUsed` |

All three come from `Sound`. A link count stays natural only because each live
handle owns a link (`LinksCover`, by the cardinality of the set of live handles);
a handle cannot be collected and its place taken by another library while a symbol
protects it (`SymbolsSound`), for which frames and wrappers must refer to objects
that exist (`FramesSound`); and a handle still reachable is live unless the user
unloaded it (`HandlesSound`).

`SignatureProofs` proves, for every text, every set of type characters and
every set of registered aggregates:

| Theorem | Statement |
|---|---|
| `SignatureAgrees` | `Spec => []LayoutsFit` |
| `SignatureTypes` | `Spec => []TypeOK` |
| `TokensCover` | `Spec => []TokensTile` |
| `TailCovered` | `Spec => []TailSplit` |
| `NativeStaysInside` | `Spec => []StaysInside` |

The argument for a call is the *trail* of the R reader: the sequence of its
places, with the stars seen and the layouts made at each. The invariant says that
the trail exists (`LayoutsInv`) and that the C reader stands on a point of it with
as many layouts used as were made there (`LoadsInv`); each of its turns goes to the
next point (`LoadsTurn`), though it looks for the end of an identifier where
the R reader looks for a `>` (`SameName`). The trail ends inside the text, so the
C reader does. For a callback it is the places where
the R code has written an `A` (`Marks`): as many as descriptors, in the same order,
and the C reader has met as many as it has used (`Met`). For `StaysInside` a `)`
that ends the arguments must survive the rewriting: the R reader cannot step over
it (`Ahead`), and once it has been passed it is in the written text for the
counter to find (`CountedInv`).

The product of array lengths stays in the range of an `int` because `Fits`
divides before the code multiplies (`FitsIsEnough`), provided each factor is in
range (`DecimalRange`). `Decimal` is a recursive function, and TLAPS knows nothing
of one until it is shown to exist; induction being out of reach, the lemma takes
the first place where it would go wrong (`FirstPlace`) and finds none. For
members the invariant is that the next token begins where the last has ended, in
every state between a type and its brackets (`TokensInv`); for a field tail, that
the characters of the items found are the characters passed that are no space
(`TailInv`).

Two assumptions on constants are used. `CharAssumption`: `>` is not `isalnum()`,
`A` is no type character of a callback, and a calling convention is chosen by a
character. `WrittenAssumption`: the five characters a reader writes by itself are
strings, which TLC evaluates and TLAPS cannot derive.

`ArgPassingProofs` proves, for all aggregates that satisfy `AggregatesAssumption`
and calls of any length, if `mips_eabi` is not among the conventions:

| Theorem | Statement |
|---|---|
| `Invariant` | `Spec => []IInv` |
| `CountersBounded` | `Spec => []TypeOK` |
| `SidesAgree` | `Spec => []Agree` |
| `ArgumentsKept` | `Spec => []NothingOverwritten` |
| `CalleeCleansUp` | `Spec => []CleanedUp` |
| `ResultAgreed` | `Spec => []ReturnAgrees` |
| `RegularClasses` | `Regular(ag) => SysvClasses(ag) = AbiClasses(ag)`, for every `ag` |
| `ClassesAgree` | `Spec => []ClassesRight`, if the aggregates are `Regular` and classified by the code |

`args_agree` checks the same for 16 aggregates and 20 bytes of stack; the theorems
have no such bounds. The two hypotheses of the first six (the last two need
neither): for MIPS EABI the
sides do disagree (see section 6) and no run claims otherwise;
`AggregatesAssumption` says of each aggregate what follows from the fields of a
structure without unions of floats: an SSE eightbyte holds one float or is full, and
a homogeneous aggregate is as large as its members together. TLC evaluates it for
the 16 aggregates of the runs.

The counters of the two sides differ in meaning: one side counts registers used,
the other those left, or bytes, or words, with holes on one side only. `Linked`
says per convention how they belong together: plain equality for thirteen
(`SameLink`), and a relation of their own for fastcall (`FastLink`), thiscall of Microsoft
(`ThisLink`), soft and hard float ARM (`ArmLink`, `HardLink`), PowerPC ELF v2
(`Elf2Link`), MIPS o32 (`O32Link`) and SPARC v9 (`Sparc64Link`). `IInv` adds
`Free` and `Filled` (whatever holds an argument is behind the counters, so nothing
free is in use), `Summed` (the stub's sum of bytes is the caller's) and `Chosen`
(who passes the address of the result). It was checked with TLC on every
convention before the proof. What a convention owes one argument is one
definition, `Kept`: the callback looks where the caller puts it, this place is
free, and the counters after it are linked again. There is a lemma for each
convention, joined in `KeptAll`; arguments in several pieces are joined by
`FreshBoth` and `OnwardOn`. Arguments outside `MayPass` are not passed in the
model but the properties speak of them too; `HardSpilled` and `ThisMsFirst` are
the two facts this needs.

`RegularClasses` compares two ways to classify a structure: the recursion of
`dc_get_sysv_class_for_8byte`, over fields and array elements, with differences of
`DCsize`, divisions and offsets cut to an `int`; and the ABI's, which asks the
scalars that reach into an eightbyte. `Regular` says for which structures they
agree: fields lie inside, arrays have an element, a nested structure or array of
them begins where an eightbyte does (its elements need not), and the first
eightbyte is not all padding, without which the readers of `sysv_classes` stop at
once (the question in the comment at `dyncall_aggregate_x64.c:148`). The fields may
overlap, be misaligned or packed. The condition on nested structures is the one the
code breaks: `args_nested` gives the counterexamples. TLC evaluates `Regular` for
fourteen of the fifteen structures of `args_agree`. The proof goes up the levels of
nesting. `MergedUp` turns "the merged class is in `U`" into "some class is in `U`",
for the three sets `U` of classes that win over the others (`Tops`), and three such
answers determine a class (`TopsTell`): so a union over fields or elements never has
to be merged in order. A leaf is an array of scalars, one of which reaches
into an eightbyte if the array does (`ElementReaches`). For an array of structures
`ElementsCover` shows that the loop's bounds leave out only elements that lie before
or behind the eightbyte, and `ArrayRight` carries the claim over. All offsets are at
most 16, so that no conversion loses anything (`SmallSize`, `SmallInt`), also in the
narrow widths of the model.

Model-checked only:

* `ReadsAsWritten`: what a text was written to mean is given by the instance
  (`Inputs`), and a theorem would only speak of that;
* `ClassesRight` where a nested structure begins inside of an eightbyte: in general
  it is false (run `args_nested`), and true in `args_agree` for `Floats3`;
* liveness (`ForeignCallReturns`, `AutoUnloads`): out of TLAPS' reach, as is
  ENABLED.

## 5. Plan

Done, in this order: `Callback` with its contract and proofs; `CallVM`
with its proofs; `DynportPackage` and `Layout` with their proofs; `Dynload` with
its proofs; `ArgPassing` and `Signature` with their proofs. What is
left is under the next heading.

## 6. Not modelled

* Aggregates: types of unknown size, objects behind external pointers, the
  conversion of strings, logical and raw values and floats, names of fields (in the
  shapes, `:0` has none and every other field has one).
* Dynports: the files of a generated package, `.libPaths()`, the items of
  `dynport_load_into()`, a port file edited during a call, and the text of port
  files.
* Argument placement: MIPS n32; MIPS EABI is modelled but left out of `args_agree`,
  because its callback aligns the stack pointer also for a `long long` that is in
  registers, and the caller does not (a defect of the vendored code); ARM hard float is followed up to the first float that finds no register
  while core registers are free; `this_ms` is left out of `CleanedUp`, because the
  stub counts the object in ECX among the pushed bytes. A homogeneous aggregate is
  one without overlapping members: unions of floats are left out
  (`AggregatesAssumption`). The thunks
  themselves are not modelled.
* Signatures: the R code around the scanners of members, types pointed to, and the
  128-byte buffer for the name of a typed pointer argument (a longer name is an R
  error; for results it is `BufSize`). A layout is taken to carry the name it was
  found by, as `cstruct()` and `cunion()` register it.
* Library search in the file system, the enumeration of symbols, printing,
  helpers without state, documentation, demos, and the rest of the vendored
  libraries: memory of CallVMs and thunks, readers of symbol tables.

`PROJECT.json` lists every component with its status.
