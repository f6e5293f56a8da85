# A verification of the ECE466 compiler

The repository is a compiler from a subset of C99 to 32-bit x86 assembly: a
flex scanner, a bison parser whose actions build types, symbols and trees, a
generator of quads in basic blocks, and an assembler that prints them. It is one
sequential program. What is hard about it is not concurrency but *state that
outlives the call that wrote it*: a dozen globals (`curr_scope`, `curr_block`,
`block_tail`, `break_block`, `cont_block`, `stack_offset`, ...) are read by
routines that recurse over the tree, or by grammar actions that run whenever
bison reduces, and each routine relies on what the others left there.

Paths below are relative to the repository; `quads.c` is `src/quads/quads.c`,
and so on.

## Inventory

| Part | State | Operations | What makes it correct |
|---|---|---|---|
| Lexer (`lexer.l`, `lex_help.c`) | line number, file name, `yylval` | one rule per token, `to_bytes`, `to_char` | a literal is found where C sees one; escapes are decoded and encoded without loss |
| Grammar (`parser.y`, `ast.c`) | bison's stack, `yylval` | an action per reduction, constructors of nodes | trees and table calls come in the source's order |
| Types (`type.c`) | chains of type nodes, each with a union | `new_declaration`, `new_function_defs`, `struct_union_decl`, `check_type_specifier` | C's specifiers and no others; the type and class written reach every declarator |
| Symbol table (`sym.c`) | scopes, symbols, `curr_scope` | install, find, open and close scopes | lexical scoping in each name space; redeclarations found |
| Control in the quad generator (`quads.c`) | blocks, `curr_block`, `block_tail`, `break_block`, `cont_block` | `gen_quads` and the recursive `gen_*` | a closed control-flow graph with the meaning of the source |
| Values in the quad generator (`quads.c`) | temporaries and their types | `gen_rvalue`, `gen_lvalue`, `gen_assign`, `gen_fn_call` | every expression leaves in memory what C says |
| Assembler (`assemble.c`) | `stack_offset`, offsets in symbols, string sections | `gen_assembly`, `parse_quad`, `parse_operand` | one place for each object; branches with targets; balanced pushes; each string once |
| Driver (`main.c`, `die-util.c`) | the globals' definitions | set up, parse | order of the phases |

**How they interact.** Bison calls the scanner for tokens and runs the actions.
An action calls `sym.c` and `type.c` (declarations, scopes) or `ast.c`
(expressions, statements). At the end of a function definition the action calls
`gen_quads` with the tree of the body, then stores the body's scope in the
function's symbol. At the end of the unit `gen_assembly` walks the symbols of
`curr_scope`, the scopes below each function and the function's blocks. There
are no callbacks, threads, files read back or retries; failure is `exit(2)` with
a message, `die()`, or the use of a NULL pointer.

**What is hard.** The generator is a recursion whose frames leave `curr_block`
where the caller must expect it, while `create_basic_block` links by creation
order; and it writes types into temporaries in place. The symbol table is driven
by an order of grammar actions in which the scope of a prototype is opened by
the declarator and closed by the declaration, or taken over by a function body.
All declarators of a declaration share one chain of type nodes, from which nodes
are taken out and into which others are written. The lexer decides by the last
two characters of a match whether a literal has ended. The assembler finds the
scopes of a function on one list of all scopes. `PROJECT.json` lists the hazards
with their lines.

## Modules

| Module | Models |
|---|---|
| `Ast` | the tree nodes, by the constructors of `ast.c` |
| `BasicBlocks` | `create_basic_block`, `link_bb`, `emit` as operators on a list of blocks |
| `QuadGen` | control in the generator: one action per routine, up to its next recursive call |
| `SourceSemantics` | abstract specification: what a function body means, from C, independently of `quads.c` |
| `CompiledCode` | `gen_assembly`'s branches and `parse_quad`'s effects, executed in step with `SourceSemantics` |
| `ExpressionSemantics` | reference: types and values of C expressions on a flat memory, and the nodes with the checks `ast.c` makes |
| `Expressions` | values in the generator: operands, temporaries, types, conversions, checks; and what each quad does to memory |
| `SymbolTable` | `sym.c` as operators on a table of scopes and symbols |
| `Declarations` | the grammar actions and `type.c` that drive it, one action per reduction |
| `LexicalScopes` | abstract specification: lexical scoping |
| `Assembly` | `gen_assembly`'s frame layout at the end of the unit |
| `TagsAndLabels` | `Declarations` with labels and gotos, beside what C makes of the tags |
| `Specifiers` | the chain of type nodes of one declaration, from the words to the symbols |
| `Literals` | strings and characters from the lexer's rules to the bytes the assembler puts in memory |
| `QuadGenProofs`, `FlowProofs`, `FlagProofs` | theorems about `QuadGen`, each extending the one before |
| `CodeProofs` | the theorem about `CompiledCode`, on the lemmas of `FlowProofs` |
| `TableProofs` | theorems about the table that `Declarations` builds and `Assembly` walks |
| `ScopeProofs` | the theorem that `Assembly` implements `LexicalScopes` |
| `FrameProofs` | theorems about the frames that `Assembly` lays out, and whose code they get |
| `PlaceProofs` | theorems that a frame has a place for all that its function declares, and which place |
| `MC_*` | instances for TLC |

`CompiledCode` composes `QuadGen` with `SourceSemantics`; `Assembly` composes
`Declarations` with the frame layout and refines `LexicalScopes`;
`TagsAndLabels` composes `Declarations` with C's rules for tags.

### QuadGen

The C recursion is the variable `work`, a stack: its head is the call in
progress, the rest are the calls and the assignments the active calls still
have to make when it returns (`Link`, `SetCurr`, `Emit`, `EndLoop`, ...). An
action is a routine from its start to its first recursive call, with everything
it writes on the way; what follows the call is pushed as frames. `blocks` is
every block in the order of creation, so `block_tail` is the last one and a
pointer to a block is a number, NULL is 0. The remaining globals keep their
names. `status` says how the compiler stands: parsing, generating, done, or
ended by a diagnostic (`error`), `die` (`abort`) or a NULL pointer (`crash`).

Operands are the nodes they were generated from: a leaf stands for its variable
or constant, another node for the temporary that holds its value. Types, the
numbers of temporaries and the scaling of pointers belong to `Expressions`. The
order of what goes wrong is kept: a call generates the function called after
`ARGBEGIN` and before the arguments; an assignment generates its left side
before it finds that it has none to store to; an operator that `get_opcode` does
not know ends the compiler after both operands. Only for a leaf and for a
compound assignment on the right does `gen_assign` emit a `MOV`, also in `a = a`:
it compares pointers to operands, and each use of a variable makes a new one.

Left out are a call in the left side of a compound assignment (`reverse_ll`
reverses its list of arguments in place, and the second time finds it reversed),
and a compound assignment that stores through the value of another one.

### CompiledCode and SourceSemantics

`SourceSemantics` gives a body a meaning as a sequence of *events* (a quad's
operation with its operands), *comparisons* whose outcome is free, and the
choice they lead to. `CompiledCode` first lets `QuadGen` generate a program and
then runs the blocks quad by quad beside the source: both must perform the same
event with the same operands, and at a comparison both follow the same outcome,
the code through flags and the conditional jump `gen_assembly` prints. A loop of
blocks without an event counts as a hang, and running past the function's last
block as a difference.

The compiler is known to be wrong in seven situations. Each has a predicate on
the state of the generator at the step where it happens, and `defects` collects
those met; the property is that code differs from its source *only* when one
was:

| Defect | Where | What happens |
|---|---|---|
| `while_entry` | quads.c:632 | the current block is not linked to the loop, which is entered only if that block was created last |
| `stale_jump` | quads.c:184-190 | break or continue goes to a loop that is over |
| `long_increment` | quads.c:611-615 | the increment of a `for` made blocks; its end is not linked to the condition |
| `unary_ignored` | quads.c:782-790 | a unary operator in a condition is dropped |
| `dropped` | quads.c:142-211 | a nested block, a labelled statement, goto, switch's labels or `?:` yields no code |
| `assignment_value` | quads.c:215-244 | the value of an assignment is used, which is its target, unassigned or NULL |
| `buried_arguments` | assemble.c:178-179 | the arguments of a nested call stay on the stack above or under the outer ones |

### Expressions and ExpressionSemantics

A program is one expression statement on ints, pointers up to two levels,
arrays, arrays of arrays, pointers to arrays, function pointers, one of them
outside the frame (`Global`), and functions with and without known parameters.
Objects and functions occur as values, and so do constants, 0 as a null pointer
among them, and nested assignments. `Generate` is the whole of `gen_rvalue` and
`gen_lvalue` on it, written as functions on the tree that pass on a state of
quads, number of temporaries and status; a diagnostic, `die` and a NULL pointer
end it as they do in the code. Then one action per kind of quad does what the
instructions `parse_quad` prints for it do: temporaries are words below
`SlotBase`, so that a quad which uses a temporary's value as an address, or a
variable's address for its value, really reads another word. A word outside all
objects, or the trap of a division, ends in `stray`. Memory is flat: an object is
four bytes at an address, and a pointer one past an array is the next object's
address. A function called returns a fixed value that depends on its arguments
where it has any. `call` with a place in the frame goes where that word says
(the assembler takes `call -20(%ebp)` for an indirect call), with a global's name
to the name itself. Memory the compiler has not written reads as zero.

`ExpressionSemantics` evaluates the same trees as C does: the type, the value,
the memory afterwards and the words written. The variable `meaning` holds that
for the statement and each of its parts. Statements that C leaves undefined
or ill-typed are not `ok`, and no property is about them.

The generator is known to be wrong in twenty ways. Each is a predicate on an
expression, and the properties hold for the statements free of all of them:

| Defect | Where | What happens |
|---|---|---|
| `AddressOfElement` | quads.c:435-446 | `&*e`, `&e1[e2]` yield the address of the temporary that holds the pointer |
| `ArrayValue` | quads.c:395-409 | an array reached through a pointer is loaded where a target is given or a variable holds the pointer |
| `SizeofOperand` | quads.c:415, 1024 | `size_of` of an array is that of an element; of a pointer to an array, the array's; of others 1 |
| `SizeofEffect` | quads.c:415 | the operand of sizeof is evaluated, with its effects or its undefined behaviour |
| `SizeofType` | quads.c:415 | the result of sizeof has the operand's type |
| `PointerDifference` | quads.c:371 | the quotient goes to a temporary that is not returned |
| `PointerIncrement` | quads.c:447-471 | `++` and `--` add 1 byte to a pointer |
| `IndirectIncrement` | quads.c:447-471 | `++*p` increments the temporary that holds the value |
| `CallType` | quads.c:529 | the value of a call has the type of the function, or of the pointer to it, instead of the one returned |
| `FunctionLoaded` | quads.c:387-411 | `*f` of a function pointer loads the function's code; `(*f)()` takes that for an address |
| `GlobalPointerCalled` | assemble.c:176 | a function pointer outside the frame is called as if it were the function |
| `FunctionName` | quads.c:885, 507, assemble.c:165 | a function's name does not become a pointer: `fp = g` is rejected, `first(g)` pushes the function's code |
| `NullPointerConstant` | quads.c:885, 507 | 0 stays an int: `p = 0` and `f(0)` for a pointer are rejected |
| `AssignmentValue` | quads.c:217, 229-244 | the value of an assignment is the target it was given, not yet written, or NULL; of a compound one through a pointer, the pointer |
| `PointerScaled` | quads.c:335-365 | a pointer to a pointer to an array is scaled by the array's size |
| `StaticClass` | sym.c:154 | `static int` and `int` are different types, and so are pointers to them |
| `CompoundEffect` | quads.c:229 | the left side of a compound assignment is evaluated twice |
| `UnknownOperator` | quads.c:8-16, 229-234 | operators other than + - * / have no quad |
| `ParameterOrder` | quads.c:511 | argument types are compared with the parameters in the reverse order |
| `BuriedArguments` | assemble.c:178 | the arguments of a nested call stay on the stack |

Types are checked by the code only for operands that are moved as they are, and
so `StaticClass` and `NullPointerConstant` name just those and the arguments of
functions with known parameters; `FunctionName` names a function wherever its
value is used.

### Specifiers

A declaration is a list of words, a list of declarators and the scope it stands
in; a definition and a member of a struct are declarators of their own kind.
One action per reduction prepends a type node as the grammar does, from the last
word to the first; then one action per declarator does all of
`new_declaration` or `new_function_defs`, and members are entered as
`struct_declaration_list` does. The chain is shared, so what one declarator takes
out is missing for the next. The union is modelled where the code confuses its
members: `return_type` written over `arith_type` (type.c:437).

Ten things are known to go wrong: `QualifierLast` and `QualifiedMember`, rules
without an action (parser.y:340-345, 476-479); `StorageInside`, a class behind a
type word is left in the chain; `UnsignedFirst`, the node of a leading
`unsigned` reads as no scalar and is overwritten; `SignAfter`, `short unsigned`
is rejected; `SharedClass`, of several declarators only the one declared first
gets the class; `WordTooMany`, `int char` is accepted; `StaticInBlock`, a
function in a block may be static; `MemberWords`, only the first type word of a
member counts; `MemberList`, only its first declarator is entered. A type that
is accepted need not have the right size: `size_of` multiplies along the chain,
so that `short int` takes 8 bytes, and knows no other words, so that `long`
takes 1 (quads.c:1025).

### Literals

The rules for literals compete as they do in flex, the longest match and of
equals the first, on a text of ASCII codes; a rule is a predicate on the text it
matches, and there is one action for each thing a rule does. `to_bytes` fills the
buffer as its loop does, with the value of a byte that `sscanf` did not write
left open. Then each string becomes a label in the code and a section at the end of the list, `to_char` writes it, and
`Assembled` reads it back with the escapes of the GNU assembler. The reference is
`TokensOfC`, C's own scan from left to right.

Known ways to lose a literal: `WideLiteral`, the quote after L becomes
part of it; `LongHex`, `"\x041"` is dropped; `HexPrefix`, `%2x` takes the x of
`"\x0x1"` for a prefix; `EscapedBackslash`, the quote after
`\\` is taken for an escaped one; `SeveralApostrophes`, `[^\\]+` takes in all that
stands between two character literals. Two more write bytes that the assembler
does not read back: `NulBeforeDigit` and `AlertOrTab`. Texts have no comments, no
continued lines, and an L only in front. `sscanf` is glibc's, which takes "0x"
without a digit for 0; by the standard it is a matching failure, which would
leave the byte and `*jump` unwritten.

### TagsAndLabels

Beside the table goes the meaning of the source in C: a stack of maps from tags
to struct types. Every specifier that names a struct and every object of one
records the pair of the type in C and the symbol in the table; the property is
that the pairs are one to one and that redefinitions are rejected exactly when
C forbids them. Two confusions are known and recorded in `confused`: an inner
definition completes the incomplete struct of an outer scope
(`add_struct_union`), and an inner declaration or definition in a scope of the
same *type* as the outer one's is taken for the outer one, or for its
redefinition (sym.c:324). For labels the property names the gotos that reach
their label; a goto in an outer block whose label comes later in an inner or in
a later block gets a symbol of its own. A goto to a label that never comes, and
the same label in two blocks of a function, are accepted without a word.

### SymbolTable, Declarations, Assembly

A table is a record: all scopes, all symbols, `curr_scope`, and the status.
Pointers are positions, the list of a scope's symbols is the sequence `head`,
newest first. `Declarations` keeps in `ctx` which constructs the parser is in
and has an action for each reduction that touches the table: an object, a
function with and without parameters, the two ends of a parameter list, a
parameter, a function definition, its body and its end, a block, the struct
specifiers and the declarations that follow one. Any sequence the grammar
accepts is a behaviour. `Assembly` adds the end of the unit: the walk over the
file's symbols, and the offsets of each function's parameters and objects.

`LexicalScopes` knows only constructs and sets of names. `Assembly`'s property
`LexicallyScoped` is a refinement: the chain of scopes from `curr_scope`
outwards, each seen as the set of its ordinary names, behaves like the stack of
open constructs.

**Known to be wrong, and kept out of the passing run.** A prototype inside a
function body opens a block scope that nothing closes (sym.c:375; the run
`local_prototype`). With three parameter lists nested in one another `)` leaves
two of the scopes (parser.y:541); the run nests two. A tag declared in a third
struct cuts the second out of the chain of scopes: `outer`, which sym.h:100 calls
"Pointer to parent / outer scope", becomes the scope around all structs
(sym.c:355). With `MaxStructs = 3` and three tags TLC finds `LexicallyScoped`
violated after three steps; the runs nest two. After `struct s f(int x);`
the scope of the prototype stays open and the next function takes it
(type.c:388); function declarators after a struct specifier are not modelled. A
local object with the name of its function gets the function's code, and the
function gets none (quads.c:995); and because functions are declared without
being found (they are stored as `VAR_S` and looked up as `FUNC_S`, sym.c:280,
297), a function and an object of one name may stand in one scope, which
violates `LexicallyScoped` within three steps. Names of functions are no names
of objects here. `size_of` gives 1 to every type but int, short and their arrays, although
the code reads four bytes (quads.c:1024, assemble.c:54-56): after such a
parameter or object the next one overlaps it, and a local of one byte placed
first would get the offset -1, which means "global"; objects here are arrays of
ints, parameters ints or function pointers. A static local gets a place in the
frame like any other (assemble.c:55). A function pointer and a function of the
same name are kept apart because `add_symbol_entry` does not find functions
(sym.c:280).

Fresh memory is assumed to read as zero (`make_new_scope` leaves `next_child`
unwritten and `make_symbol_node` leaves `b_block`, `register_counter` and
`inner_scope` unwritten). `create_new_scope()` in parser.y:668 lacks its
argument; the constant `Garbage` holds what it may read as. The runs use
`GLOBAL_SCOPE`, which is neither of the two values the routine tests for; block
and function scopes are made the same way for each such value.

## Runs

| Run | Question | Size |
|---|---|---|
| `quadgen` | Is the block graph of every program closed, are compares, arguments and loops in order, does generation end? | 2,672 programs, 92,085 states |
| `compiled_code` | Does the code do what the source says, whatever the comparisons yield? | the same programs without goto and `?:`, 223,575 states |
| `expressions` | Does each expression leave in memory what C says, and nothing else? | 20,690 statements in two memories, 131,065 states |
| `symbols_and_frames` | Is scoping lexical, and does each int and array get its own place in the right frame? | up to 5 symbols and 4 scopes, about 1,055,000 states |
| `tags_and_labels` | Does the table tell apart the struct types that C does, do gotos find their labels? | up to 5 symbols and 6 scopes, 2,831,732 states |
| `specifiers` | Does the parser accept C's specifiers and only those, and keep type and class? | all lists of up to four type words, 163,641 states |
| `literals` | Does each literal reach memory with C's bytes? | 25,843 texts, 172,345 states |
| `stale_break`, `loop_entry`, `local_prototype`, `address_of_element`, `unsigned_rejected` | Does the code keep what a comment or a test says? It does not: each is a counterexample. | small |

**Bounds of the programs** (`MC_Programs`). Every expression form and every
condition alone and in each kind of statement; every statement in each other;
pairs of statements inside a third; two functions in a row, because globals
survive from one to the next. The routines see only one node and a handful of
globals, so what they can do to each other shows with two loops, two levels of
nesting and two functions. Trees are at most five levels deep.

**Bounds of the expressions** (`MC_Expressions`). All legal trees of one
operator over every kind of object and over the functions, all of two with one
side from the first level, dereferences of those, each as a value, as what is assigned to, in a
compound assignment and alone. Two levels are what the code's own state reaches:
a routine looks at the type of its operand and of what that points to. Two
memories differ in the pointers and the ints, so that a wrong word read shows.
`MaxReg = 12` is more than any statement needs, which `TypeOK` checks.

**Bounds of the table.** Five symbols and four scopes hold two functions one of
which has a nested block, a function with a prototype among its parameters, a
struct in a function, and a struct in a struct. Names: one object, one function
with definitions, one function that is only declared, one pointer, two tags, so
that all clashes within one kind occur. `MaxNested = 2` parameter lists lie in
one another, and `MaxStructs = 2` structs. Prototypes occur in the file and in parameter lists
(`PrototypeIn`); those in a body are the run `local_prototype`. Objects are
arrays of two ints and parameters are ints or pointers to functions. For tags
and labels, one tag and one label show all clashes; two functions, which are
symmetric, and six scopes give three nested blocks with structs in them;
`MaxPlaces = 3` counts labels, gotos and struct types together.

**Bounds of the words.** `check_type_specifier` never looks further than two
nodes ahead, so four words show a word too many behind every list that is
legal; three words of any kind put a class or a qualifier in every position.

**Bounds of the texts.** Each rule looks at a quote, the character before it and
what an escape takes; six characters hold two literals or an escape between two
quotes. Every byte occurs, before a digit, before another and at the end, and
`\x` with and without "0x" behind it.

**Properties.** `BranchesResolved`, `OnlyTailOpen`: no missing target, no
unmarked fall-through. `CompareBeforeBranch`, `ConditionalIsFinal`: nothing
comes between a compare and its jump, then or later. `ArgNotLast`: `parse_quad`
never dies on an argument at a block's end. `NeverOuterLoop`: inside a loop,
break and continue never go to an outer loop. `Terminates`. `CodeFollowsSource`,
`StaysInFunction`: above. `AcceptsC`, `ComputesC`: a legal statement without a
known defect is compiled, and leaves in every object what C says.
`OnlyWhatCWrites`: even with a defect, no step of the code writes an object to
which the statement does not assign. `EveryObjectPlaced`, `ObjectsApart`,
`ParametersInOrder`: frames, against what the code touches and what a caller
pushes. `FunctionHasItsCode`: a symbol is assembled with the blocks of its own
body. `LexicallyScoped`: the refinement. `TagsAsInC`, `GotosReachTheirLabel`:
above. `LegalAccepted` and `AcceptsOnlyC`: the two halves of "C's specifiers";
`StorageClassKept`, `DeclaredAsWritten`: what reaches each declarator.
`LiteralsAsInC`: the tokens; `EscapesReadable`: in any text at all, legal or
not, no byte of a token is one that `sscanf` did not write;
`SectionsHoldStrings`: each label has one section with the string's bytes.

**Counterexamples.** `stale_break`: a break outside any loop is taken for one
when an earlier function had a loop. `loop_entry`: in `ptests/hw4/loops.c` a do
loop after a for is never entered. `local_prototype`: see above.
`address_of_element`: after `p = &e[1]` p holds the address of a temporary.
`unsigned_rejected`: `unsigned int ui1;`, from `ptests/hw3/base.c`, is an error.

**Fairness.** `Terminates` and the counterexample runs of programs assume weak
fairness of the whole next-state relation and of nothing smaller: the compiler
is one thread that runs until it exits. The other modules have safety properties
only and no fairness, since nothing makes a source go on.

**Deadlock** is not an error in these models: a compiler that has ended takes no
step.

## Theorems

### The quad generator

For every set `Node` closed under children and under the expansion of compound
assignments (`NodeAssumption`), and every set of programs over it
(`ProgramAssumption`), hence for trees of any shape and depth.
`ArgumentsFollowed` alone also uses `ExpressionAssumption`: the operands of an
operator and the arguments of a call are expressions, as `parser.y` derives them
(`function_arguments`, `assignment_expression`). TLC evaluates all three.

* `TypeCorrect`, `Spec => []TypeOK`: one lemma per routine shows that the calls
  it pushes, the blocks it names and the globals it writes keep their types.
  `TypeOK` includes that a block exists whenever one is named, and that there is
  a current block while a function is generated, so `emit` never follows NULL.
* `BranchTargets`, `Spec => []BranchesResolved`, and `NoFallThrough`,
  `Spec => []OnlyTailOpen`: neither is inductive by itself. The invariant is
  `FlowInv == TypeOK /\ BranchesResolved /\ OnlyTailOpen`. Lemmas say what
  `link_bb`, `emit` and `create_basic_block` do to any list of blocks that is
  closed under control flow; then each action is a composition of them, with
  targets that exist by `TypeOK`.
* `NoOuterExit`, `Spec => []NeverOuterLoop`: the property says that `break_block`
  and `cont_block` are no older than the targets of every loop in progress. A
  loop has two parts, and the second sets the globals again from a frame pushed
  at the beginning; without knowing what that frame holds the property is not
  inductive. `LoopInv` adds that a second part holds a block no older than the
  loops around it (`PartsInside`), which holds because blocks are numbered in
  the order of creation.
* `FlagsAreFresh`, `Spec => []CompareBeforeBranch`, and `FinishedBlocks`,
  `Spec => ConditionalIsFinal`: `gen_condexpr` leaves `curr_block` on the block
  it has finished, so that the next `emit` there would put a quad between the
  compare and its jump. The invariant `FlagInv` says why there is none: a
  finished block is only current while the next frame that matters makes
  another block current (`CurrentLeft`, `ConditionsLeft`); the blocks that
  pending frames name are unfinished (`FramesOpen`); and no two frames make the
  same block current and write to it later (`FramesApart`, `CurrentApart`), so
  that no condition in between can finish a block some frame comes back to.
* `ArgumentsFollowed`, `Spec => []ArgNotLast`: between two arguments `gen_fn_call`
  hands over to `gen_rvalue`, and what that does may span many steps and blocks.
  `ArgInv` says that an `ARG` which is the last quad of a block is in the current
  block, and that the frames on `work` feed it: up to the first that appends to
  the current block there are only calls of `gen_rvalue` for expressions
  (`Feeds`, `Waiting`). The same is said in advance of every `ARG` still on
  `work` (`ArgsFeed`). Without the assumption it is false: a break in place of
  an operand of a comparison would leave the `ARG` before it at a block's end.

* `CodeStays`, `CSpec => []StaysInFunction`, about `CompiledCode`: the code is
  executed from any function's first block, with any outcome of the comparisons.
  The invariant is in two halves. `CompileInv` is about the generator: no branch
  leads from a block of one function to one of another (`Confined`), and
  everything that the calls in progress, the globals and the operands still name
  was created for the function being generated (`AllHere`), except what
  `break_block` and `cont_block` hold outside a loop. A jump that takes that
  exception records `stale_jump`, and nothing is claimed from then on. The
  second half, `RunInv`, follows the execution from `block_head` along the
  branches; where a block has none it stops rather than run into the next
  function.

### The symbol table

About `Assembly`, for sources of any length and with any number of names,
symbols and scopes. The hypothesis `Bounds` leaves out what the code is known to
get wrong: prototypes in a function body (`local_prototype`), three parameter
lists in one another (parser.y:541), three structs in one another
(sym.c:355), and a value read for the missing argument of
`create_new_scope()` that makes a block a prototype's or a struct's scope. All
the bounds of `MC_Assembly` satisfy it.

* `WellTyped`, `ASpec => []TypeOK`, and `OneListOfChildren`,
  `ASpec => []Listing(table)`. That `curr_scope` is never NULL depends on every
  construct having opened the scope that its end closes, and `)` closes scopes by
  their type until one is no prototype's. So the invariant, `AssemblyInv`, gives
  each construct the parser is in a scope, its *home* (`Nested`): of the type
  that belongs to the construct, `outer` of the next further in, the file's for
  the last, and the current scope for the innermost. With it go `Sound` (scopes
  and symbols refer to ones that exist, `outer` only to older scopes) and
  `Listing`: the scopes can be numbered so that the numbers grow along
  `next_child`. A new scope is put into the middle of that list, so the order of
  creation is no such numbering; the proof constructs a new one. What the search
  loops do is read off recursive functions with the theorems of the library on
  well-founded relations: a loop that did not end has a least counterexample.
* `ImplementsScopes`, `ASpec => LexicallyScoped`: the refinement of
  `LexicalScopes`, step by step, under the further hypothesis `NamesApart`: the
  name of a function is not that of an object. Functions are declared without
  being found, so without it `int f;` and `int f() { }` may both stand in the
  file's scope, and TLC shows at once that the refinement fails. The lemmas say
  how the names seen from `curr_scope` change (`EnvIn`) with each operation on
  the table; the invariant `ScopeInv` adds to `AssemblyInv` that a name of a
  function never is that of something else in a scope (`NamesOK`).

### The frames

About `Assembly`, under `Bounds`.

* `FramesDoNotOverlap`, `ASpec => []ObjectsApart`. A frame is computed in one
  step from the symbols that the walk along `next_child` lists, so most of this
  is about operators: the offsets of parameters and of other symbols are sums of
  sizes over a prefix of that list (`ExtentGrows`), hence two symbols of the same
  kind are as far apart as the sizes between them, the first parameter is at 8,
  and the last local is above `stack_offset`, where the temporaries begin. The
  invariant carries it over the later steps: `FrameApart` speaks only of the
  types of the symbols, which no step changes any more.
* `DefinitionsHaveTheirCode`, `ASpec /\ []OnlyInFile => []FunctionHasItsCode`,
  under the hypothesis `OwnNames`: no function has the name of an object. The
  compiler does not keep the symbol of the function it is in; `gen_quads` and the
  grammar look it up by name when the body ends, from inside the body and from
  around it. The invariant `FnInv` says why both find the right one: function
  names stand in the file's scope only (`InFile`); of those the definition whose
  body is open is the first in the list (`Mine`), since nothing is declared in
  the file until the body has ended; all earlier definitions have a block that is
  theirs (`HasCode`), and the symbols made in different functions do not
  interleave (`Ranges`). At the end of the source no function is open, so all
  definitions have their code, and assembling copies it into the frames
  (`CodeInv`). `OnlyInFile` excludes `int f();` inside a function when `f` is
  defined in the file too: in the body of `f` itself the lookup at the end would
  find that declaration, and the definition would never get its blocks.
* `ObjectsArePlaced`, `ASpec /\ []OnlyInFile => []EveryObjectPlaced`, under the
  same hypotheses: every int and array of a function, in whichever of its blocks,
  is met by the walk that lays out its frame, and its place is not the -1 by
  which `parse_operand` knows a global. The walk follows `next_child` from the
  function's outermost scope to the next `FUNC_SCOPE`, and `create_new_scope`
  puts a new scope behind the current one, before all that were made earlier.
  The invariant `PlacedInv` therefore speaks of every moment of the parsing. It
  assigns to each scope the child of the file's scope that it lies in, its top;
  each scope but a top comes in the list directly behind one with the same top
  (`Roots`), so that the scopes of a function are next to one another and the
  walk meets all of them (`WalkMeets`). The symbols made in a function that has
  been read are in scopes whose top is that function's, and these hold no older
  ones (`Tree`); those of the declaration or function being read are in scopes
  with the top of the current one (`Since`). When a body ends, `Since` gives `Tree`
  for the new function. While the parameters are read, the top is a prototype's
  scope; it turns into the function's when the body opens.
* `ParametersWhereCallersPut`, `ASpec /\ []OnlyInFile => []ParametersInOrder`: a
  parameter with only ints before it is 8 bytes and 4 for each of those above
  `%ebp`. (`size_of` counts a byte for a pointer to a function, and a caller pushes
  4, so nothing is said of the parameters behind one.) A prototype's list has the
  newest symbol first, `new_function_defs` turns it around, and what the body
  declares is put before it. The part `Ordered` of `PlacedInv` says which lists
  have been turned and that no symbol is twice in the lists; with it the
  parameters that the walk meets before one are those that come before it in the
  source (`ParamsBefore`).

### Only model-checked

`Terminates` and everything about `ENABLED`, which are outside the prover. What
recursive functions on trees, types and texts compute for every input
(`CodeFollowsSource`, and all of `Expressions`, `Specifiers` and `Literals`):
this needs an induction over data that the prover does not offer.
(`TableProofs` avoids one for the chain of scopes, whose elements are numbers.)
The properties of tags and labels (`TagsAsInC`, `GotosReachTheirLabel`): no proof
yet.

## Not modelled

The text of instructions and registers; keywords, operators, numbers and line
directives of the scanner, one regular expression and one conversion of the C
library each; bison's tables; the printing of trees, tables and blocks
(`print_ast`, `lex_tester.c`, the dumps); the reports of redeclarations; char,
short and struct operands of expressions, which the generator treats as ints or
rejects; casts and sizeof of a type name; typedefs and unions in the table
(the grammar accepts no typedef and treats a union as a struct); function
declarators after a struct specifier; redeclaration with a written storage class
(sym.c:190-202); the diagnostics of the driver.

## Plan

1. `Declarations`: redeclaration with storage classes, declarators after a struct
   specifier, so that type.c:388 becomes a counterexample run.
2. `Expressions` with the frame of `Assembly` in place of `SlotBase`, and char and
   short objects, whose width `size_of` and the instructions disagree about.
3. Proofs: that a goto reaches its label and that a tag is the one C means
   (`TagsAndLabels`), with the invariant of `PlaceProofs` as the model: each label
   is listed in the outermost scope of the function whose code is being read.
