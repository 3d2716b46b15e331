# Pokémon maps: TLA+ verification

Models, model-checking runs and machine-checked proofs of the program in this
repository: a *map* process schedules *trainer* processes that walk over it,
capture pokemons and, when they wait for each other, fight; a file server and a
FUSE client give them their files.

## 1. The system

| Part | Source | State it keeps | Operations |
|---|---|---|---|
| Main thread of a map | `mapa/src/main.c` | the connected clients and their descriptors | `select`, `accept` + first message, notice that a client left, SIGUSR2 (reload), SIGINT |
| Planner thread | `mapa/src/planificador.c` `hiloPlanificador` | the trainer whose turn it is | `quienSigue` (RR, SRDF), serve MOVERSE / CAPTURAR_POKEMON / OBJETIVO_CUMPLIDO, `isTurno` |
| Block thread | `planificador.c` `hiloBlock` | the blocked trainer in its hands | take the head of `colaBlock`, deliver a pokemon or block again, two waits |
| Deadlock thread | `mapa/src/deadlock.c` `hiloDeadlock` | the tables, the fighters | every `TiempoChequeoDeadlock`: detect, challenge, fight, release the loser, deliver |
| Queues | `mapa/src/queue_utils.c` | `colaReady`, `colaBlock` | push, pop, `popEntrenador`, `moveToEnd`, `clonarCola` |
| Pokenests | `mapa/src/pokemon_utils.c`, `mapa.c`, `liberarRecursos` | the pokemons left in each, a count, what each trainer holds | `obtenerPokemon`, `agregarPokemon`, `liberarRecursos` |
| Sprites | `mapa/src/interfaz_grafica.c`, `nivel-gui` | the position of each symbol | create, move, remove; SRDF reads them |
| Trainer | `entrenador/src` | its goals, way, position, pokemons, lives | `iniciarMapa`, `gestionarEntrenador`, the journey over several maps |
| Sockets | `Sockets/` | one connection per trainer and map, per client and server | length-prefixed messages, serialisation |
| OSADA file system | `pokedex_servidor/src/osada_utils.c` | bitmap, allocation table, file table | create, read, write, truncate, rename, delete |
| Pokedex server | `pokedex_servidor/src` | one thread per client | one request, one answer |
| Pokedex client | `pokedex_cliente/src` | one socket, single-threaded FUSE (`-s`) | a request per FUSE callback |

How they interact. The four threads of a map share the two queues (a mutex
each), the pokenests (a mutex), the sprites (a mutex) and, with no mutex at all,
the fields of every `t_info_entrenador`, `mapa->algoritmo` and `mapa->batalla`.
A trainer is handed from thread to thread: `main` accepts it and makes it ready;
the planner gives it turns and blocks it when it asks for a pokemon; the block
thread gives it the pokemon and makes it ready again; the deadlock thread takes
the blocked ones that wait for each other, has them fight, frees what the loser
holds, and serves the others itself. `mutexBlockDeadlock` is meant to keep the
last two apart. Whoever has the trainer in its hands talks to it over its socket
and *blocks* in `recv` for its next request. Three condition variables wake the
planner and the block thread. A trainer answers each message with exactly one,
except to a death.

What is hard: conditions read outside the mutex of the condition variable (lost
wake-ups), a mutex unlocked by a thread that does not own it, a queue measured
before it is locked, a thread inside `recv` for a peer that may be waiting or
dead, messages told apart only by their order, freed messages that are still
pointed to, a configuration reloaded between two reads, a detector whose answer
depends on the order of a hash table. `PROJECT.json` lists these hazards at
their lines.

What makes each part correct, and where it is stated:

* pokemons: none is lost, duplicated or given to two trainers; the count matches
  the queue (`UnicoLugar`, `CantidadExacta`); takes are one by one, gives-back are
  all together and final (`CumplePromesa`);
* hand-over: a trainer is in one place (`EnUnSoloLugar`), is not forgotten
  (`NingunoOlvidado`), and after losing is out (`DerrotadoFuera`);
* conversation: at most one message under way (`PedidoRespuesta`), nobody waits for
  somebody that waits for it (`NadieEsperaANadie`), frames are read for what they
  are (`TramasEnOrden`, `NadieCae`), both ends agree on the pokemons held
  (`MochilaAlDia`);
* turns: `TurnoAcotado`, `TurnoLlega`, `PlanificadorEncuentra`, `PosicionAlCapturar`;
* threads: `Exclusion`, `ReadyEsAtendida`, `DespiertaPorPeriodo`;
* deadlock: `AbrazoDetectado`, `ListadoConMotivo`, `ListadoInterbloqueado`,
  `CicloSeRompe`;
* files: no block in two of them (`SinCompartir`), what they use is taken
  (`CadenaOcupada`), nobody's chain changes under others' steps (`AislaArchivos`),
  a lock is held by those that copy and nobody else (`Cerrojos`), each block has one owner
  from its reservation to its release (`RepartoConCuidado`), all four until one of the
  slips named in `PokedexCuidado`; what a callback says is what happened (`RetornoVeraz`),
  every call returns (`TodaLlamadaVuelve`), only empty directories go (`DirectorioVacio`);
* connection: the framing is a channel of whole messages (`CumpleCanal`);
* journey: nobody plays without lives (`JuegaConVida`), a master has its medals
  (`MaestroConMedallas`), the Dir de Bill follows the list (`BillAlDia`), the journey
  ends unless somebody else holds it up (`ViajeTermina`), and whoever gave up is no master (`RendidoNoEsMaestro`).

## 2. The modules

| Module | Models |
|---|---|
| `Movimientos` | the way a trainer computes and what a step does to a sprite |
| `Colas` | the queues as sequences, `popEntrenador` |
| `Deteccion` | the detector, as operators on its three tables |
| `Calculo` | one run of `calcularMatriz`, one row per step, over any tables |
| `Estado` | the shared state, messages, sockets, conditions, pokenests |
| `Planificador`, `HiloBlock`, `HiloDeadlock`, `Principal`, `Entrenador` | the actions of each thread, and of the trainer |
| `Mapa` | `Init`, `Next`, fairness, the specification and every property |
| `Recursos` | what a map promises about its pokemons (abstract) |
| `Osada` | the tables of the file system and the steps of each of its operations |
| `PokedexServidor` | `accept`, the threads of the pokedex server, their requests and their log, and the properties of the files |
| `PokedexCuidado` | who owns each block, and the steps of the server in which a thread slips (no new step; a history variable, `tropezo`) |
| `PokedexCliente` | the FUSE callbacks of the clients, composed with the server |
| `Canal` | what the two ends of a connection count on: whole messages, in order (abstract) |
| `Tramas` | size and body over a stream of bytes, which implements `Canal` |
| `Viaje` | the journey of one trainer process over its maps and lives, with its signal handlers; it reads through `Tramas` |
| `MapaMC`, `CalculoMC`, `PokedexMC`, `ViajeMC` | small instances |
| `Calculo_proofs`, `Tipos_proofs`, `Lugares_proofs`, `Conversacion_proofs`, `Cuentas_proofs`, `Posicion_proofs`, `Viaje_proofs`, `Pokedex_proofs` | theorems |

Each thread has a program counter (`pcP`, `pcB`, `pcD`, `pcM`; the trainer
`pcE`) and the local variables that live across its steps; the diagram of its
values opens its module. A step ends where another thread can observe or change
something: at a mutex, a condition, a queue, a send or a recv. A *visit*
`<<trainer, life>>` stands for one connection and its `t_info_entrenador`; its
first component is the symbol, the same in every life, and `popEntrenador`
compares symbols.

Correspondence worth knowing:

* `msj[c]` is the pointer `msjEntrenador`: its `accion` is the one of the message,
  `"NULL"`, or `"LIBERADO"` once freed. `UsarMsj` is what dereferencing it does.
  `fallo` is what killed the map process (`"nulo"`, `"liberada"`, `"trama"`,
  `"sigpipe"`); after it nothing happens.
* `aMapa[c]`, `aEntrenador[c]` are the two directions of a socket: reliable and in
  order; what is sent to a closed end is lost; `recv` gives NULL after the last
  message of a closed end. The second send to a closed end may raise SIGPIPE.
* `duenio` is `mutexBlockDeadlock`, a default mutex: unlocking it frees it, whoever
  locked it.
* A signal moves only a thread that already waits; "about to wait" is a state of its
  own (`porDormir...`), so that lost wake-ups are there.
* `PopEntrenador(cola, tam, s)` has the size counted earlier (`tamD`, `tamM`).
* The order of a hash table and of `list_sort` on whole seconds is any order; the
  freed byte compared by `popEntrenador` is any symbol (`SimboloLeido`).

Steps merged, because nothing another thread can see or do lies between them:
`quienSigue` is entered in the step of its first look at the queue; `B_Lock` is
the lock and `getBlock`, `D_Lock` the lock and `clonarCola`; a trainer reads the
two frames of a delivery in one step once both are there; the sends of a delivery
and `obtenerPokemon` + `agregarPokemon` are one step (only the thread that has the
trainer touches its dictionary and its socket; the pokenest is under
`mutexPokenests`). The planner that finds nobody in `getEntrenadorMasCercano` dies at
once: the code waits on its condition first (`planificador.c:42`).

The pokedex. `Osada` has the variables of `osadaDisco` (`bitmap`, `tablaAsignacion`,
`tablaArchivos`), the locks of the files, and for each thread a `pc` and the local
variables that live across its steps; its diagram opens the module. A lookup is one
step per name of the path, as `mutexTabla` is taken for each. The walks over a chain
are one step; a chain that closed on itself is a walk that never ends (the step is
not enabled). Where the code reads or writes outside its tables the model has what the
build may do: `tablaAsignacion[-1]` is a word of its own (`MemoriaPrevia` at first, the
`first_block` of the last slot, taken to be unused), the variable that `getUltPosBlock`
does not initialise is any block or an address that kills the process, and so is the
unsigned `-1` of a first block. `liberarBitmap` without its mutex is a read and a
write of one byte, so a disk has at most eight blocks. Two pairs of stores without a lock
are one step each: the reservation of a first block with its entry of the file table
(`ReservarPrimero`, 313-319), and the two links of an append (`EnlazarUltimo`, 329-331); a
thread that comes in between would find the block taken and not yet linked, which is what
it finds before the link of an append too. A write is of the end or the beginning of a
file and a `getattr` of a path that is there (`LoPide`). `PokedexServidor` takes from the
clients what their kernels let through: they create what they do not see and use what
they see, as it was when they sent the request. `bitmap` has one bit per data block:
the code searches all the bits of its blocks, those after the end of the disk
included, and trusts the disk to come with them set.

The client of the pokedex. `llamada[h]` is the callback a client is in and
`pedido[h]` its request until the thread of the server takes it; since FUSE runs
with `-s` there is at most one of each. `Retorno` is what the callbacks make of an
answer. `toco[h]` remembers that the thread changed a name, a place or a size for
the call. `registro` is `log_serv`: each thread that starts opens it, each one that ends
destroys it; using it afterwards may kill the process (`UsarRegistroLiberado`). A
client killed between the two sends of a write is `"cortado"`: the thread of the
server stays in the loop of `recibirBuffer`.

The connection. A frame of `Tramas` is a message with the bytes still unread and
those that will never come; `recv` takes any number of them. A close loses a suffix
of what was sent, wherever it falls. `Canal` sees the messages that will arrive
whole and the one the reader has in its hands. `Estado` uses the whole messages that
`Canal` promises.

The journey. `pila` is the call stack of the trainer process: the `initEntrenador`
running, a handler over it, a game started in the handler or by the question, and so
on. A handler runs between any two steps, the read and the write of `vidas` included;
a signal is blocked only while its own handler is in the stack. Freed memory
(`msjEntrenador` at the second connection, `entrenador` after a nested game was given
up) still holds what it held, or the process dies. `copias` are the `cp` that
`system()` started: `system()` waits for its own, and one left behind by a restart in a
handler ends when it ends. `getc` takes one character of the line the player types, and
the newline answers the next question. The map is reduced to what it may answer: a
place, a pokemon, a fight, a death, a closed connection.

Abstractions. Of the files, contents and dates are left out, and so is the case of a
name (`string_equals_ignore_case`): two names of the model differ in more. Levels of pokemons, names and pixels are data: any fighter may
lose. `liberarRecursos` returns all the pokenests in one step, though the code
takes the mutex for each. `crearMatrizAsignacion` walks `colaBlock` without a mutex
and `moveToEnd` locks twice: one step each. Spurious wake-ups of a condition, a
partial `recv` between a map and a trainer (see `Tramas`), SIGINT, and the errors of
`accept` are left out. Time is left out:
a period or a delay is a step that may come at any moment.

## 3. The runs

Every run of `MapaMC` has two trainers. Every run has `CHECK_DEADLOCK FALSE`: a map
whose trainers left just waits, a map or a server that died stops, a server whose
clients left waits for others, and `Calculo` ends when every row was visited. In a run whose trainers are alike
(`ObjetivosIguales`) trainers and pokemons are symmetric; the liveness runs use no
symmetry.

| Run | Instance | Shows |
|---|---|---|
| `deteccion` | 3 trainers, 3 pokenests, 0 or 1 unit of each free and held: all tables, all orders | `AbrazoDetectado`, `ListadoConMotivo` |
| `batalla` | 1 pokenest a step away, 2 pokemons, 2 goals each, RR, fights on; one trainer plays a second life, or one process is killed at any moment | `UnicoLugar`, `CantidadExacta`, `MochilaAlDia`, `TramasEnOrden`, `EnUnSoloLugar`, `NadieEsperaANadie`, `DerrotadoFuera`, `NadieCae`, `PosicionAlCapturar`, and `CumplePromesa`: the map implements `Recursos` |
| `ronda` | 2 pokenests, one two steps away, opposite goals, RR and SRDF, one reload at any moment, quantum 2, no fights | `TypeOK`, `PosicionAlCapturar`, `TurnoAcotado`, `PlanificadorEncuentra`, `PedidoRespuesta` |
| `turnos` | quantum 1, two starts: one pokemon, no fights, RR or SRDF (`InitTurnos`); and the 3 pokemons of another pokenest, 3 goals each, where the wait is complete (`InitCiclo`) | `TurnoAcotado` at its boundary, `TurnoLlega`, `DespiertaPorPeriodo`, `CicloSeRompe` |
| `exclusion` | `batalla` with 1 life and no kills | `Exclusion` is **violated** |
| `dormidos` | the first start of `turnos`, with RR | `ReadyEsAtendida` is **violated** |
| `falsos` | `deteccion` | `ListadoInterbloqueado` is **violated** |
| `olvidado` | 1 life, 1 pokenest, 2 pokemons, no fights | `NingunoOlvidado` is **violated** |
| `osada` | 2 clients, 4 blocks of 2 bytes, 3 slots, files of up to 8 bytes; sixteen scenarios | `TypeOK`, `SinCompartir`, `CadenaOcupada`, `Cerrojos`, `RetornoVeraz`, `AislaArchivos`, `RepartoConCuidado`, `TodaLlamadaVuelve` |
| `viaje` | 2 maps with 2 and 1 pokemons, 2 lives, 2 signals, 1 connection that fails, a map that may die at any moment; a size of 1 unit and bodies of 2 | `TypeOK`, `JuegaConVida`, `MaestroConMedallas`, `BillAlDia`, `ViajeTermina`, and `CumpleCanal`: `Tramas` implements `Canal` |
| `maestro` | the same with 1 life and no signals | `RendidoNoEsMaestro` is **violated** |
| `rmdir` | the scenario `MismoDirectorio` of `osada` | `DirectorioVacio` is **violated** |

The bounds. Two trainers and two pokemons of one pokenest are enough for a
circular wait (each has one and wants the other), a fight, a loser, a winner
served by the deadlock thread and, with two lives, a loser that comes back while
its old visit is still being cleaned up. With one pokenest every hand-over between
the four threads already happens. `ronda` needs two pokenests, one of them far, for
a way of more than one step and for a turn that ends on the way. A quantum of 2 is
the least that has a turn that goes on and one that ends; `turnos` has the other case, a
quantum of 1, where a turn is of two operations (`LargoDeTurno`): `getReadyRR` counts the
location it answers (`planificador.c:289`) and does not compare it with the quantum. In `batalla` the constraint
`CaeORevive` leaves out the histories where both a process is killed and a trainer
comes back: each is a way for an old visit to be cleaned up while others go on, and the
two together multiply the states. In the second start of `turnos` the longer goals keep the winner from finishing at once; the prefix of the behaviour that
leads to the wait is what `batalla` explores.

In `viaje` two pokemons in a map are the least for a fight with something to lose and
for a `queue_pop` that goes on, two maps for a second connection and a `--var`, two
lives for a death that is not the end, two signals for one handler over the other or
one over the game started in the other. Restarts are not bounded: the state is finite
because a game started over another one takes a signal or the newline gives it up.
A body of two units may be split by `recv`, and cut in the middle.
`CabeceraEntera` says that the four bytes of a size travel together. The code takes it
for granted (`recibirSize` calls `recv` once); without it `CumpleCanal` is false, as a
size read in part is taken for another one.

The scenarios of `osada` (`PokedexMC`) say which calls each client may make, in any
order and as often as it likes: each one its file (`CadaUno`), a directory made,
filled, listed and deleted by two (`MismoDirectorio`), a file written by one and read
and renamed by the other (`Lector`), one truncated or renamed while it is read and
deleted (`Desaparece`, `Renombrado`), one replaced by another (`Reemplazo`, `Directorios`),
one that grows over several blocks and is emptied (`Vaciado`), a disk that fills up
(`Agrandado`), the only file of a disk written from the end of its only block
(`UnBloque`), with names that do not reach the server; and the places where the code
goes wrong: a file grown over its only block, past its end, or cut to fewer bytes than
blocks, beside another one (`Solitario`), a file that gets the blocks and the old links of
a deleted one (`Heredado`), one written by both (`DosEscriben`), one emptied while another
is written (`CortaAlLado`), one replaced while it is written (`EnUso`), and two clients
that take the last blocks, one of which appends (`Lleno`). In `Lector` (`MuerenEn`) each
client may be killed at any moment. Nobody calls a server that died: that call fails like
the one it was serving. Between them every step and every error answer happens. Two
clients are enough for every race of two threads, and four blocks for two files of two.

The slips. The file system does not keep the files apart: there are steps that break it.
`PokedexCuidado` names them, `tropezo` remembers that one happened, and the four
properties about blocks say what holds until the first. `Tropieza(h)` is the thread that is
about to take such a step, whatever it was asked:

* a walk that leaves its chain and reads before the allocation table something that is not
  an end (`SeSale`; in the run the memory there is 0, a block like any other);
* a block reserved with the bitmap full (326, 361): -1 is used as a block;
* an append to a chain of one block, whose last one `getUltPosBlock` does not find (671);
* a truncate that gives a block per byte over one block, or cuts to fewer bytes than the
  chain keeps blocks (554, 583-596), so that blocks still linked are released;
* the last block that a truncate adds, if it keeps the link of its former file (541);
* a bit cleared in a byte of the bitmap that another thread changed since it was read (594);
* and, for any step, a file in the hands of two threads, or in those of one after it was
  deleted (`Separados`): two writes, a write and a truncate, the destination of a rename.

These are the conditions under which the code goes wrong and not a choice of requests: the
scenarios reach them, a truncate or an append that does not meet them is no slip, and the
run goes on after one with the properties that do not speak of blocks (`Cerrojos`,
`RetornoVeraz`, `TodaLlamadaVuelve`). Only in `Solitario`, `EnUso` and `Lleno` no new call
begins after a slip (`CallanEn`), as the damage multiplies the states. Are they all needed?
Without the ones of the walk, the append (`Solitario`), the cut (`Solitario`), the growth
over one block (`Solitario`), the old link (`Heredado`) or the byte (`CortaAlLado`), TLC
finds `CadenaOcupada` or `AislaArchivos` violated in the run. A walk of a delete out of its
chain needs five blocks, what is written with -1 goes to memory that the model does not
have, and `Separados` would need more calls than a scenario has: those three are argued
from the code and not shown.

No text of the repository says what the code should do where it slips, so no run claims
it; the hazards of `PROJECT.json` list each at its line. Two of them deserve a word. A
chain may close on itself after a slip, and `countBlocks` never returns: no call of the
scenarios gets there, and `TodaLlamadaVuelve` is about them. And a rename of a file
that was deleted between its lookup and its writes (491) says OK with nothing renamed:
`RetornoVeraz` claims of a success only that a `CREATE` created.

`RepartoConCuidado` checks on this disk the hypotheses and the inductive step of
`Pokedex_proofs`: from the shared-out disk of the start, a step that is no slip between
states without one keeps the blocks shared out (`Reparto`).

`EnExclusion`. `batalla` follows only the steps after which hiloBlock and
hiloDeadlock still exclude each other. Run `exclusion` shows that they do not
always; what the run says is what the threads promise as long as they do. It is
an action constraint of this run, not part of the model: the proofs of
section 4 are about `Spec`, and a theorem that needs as much says so in its statement
(`[]Disciplina`).

What the violations mean:

* `exclusion`: `hiloBlock` unlocks `mutexBlockDeadlock` (`planificador.c:172`), waits on
  `condBlock`, and unlocks it again at 177, when `hiloDeadlock` may own it. From
  then on both work on the blocked trainers.
* `dormidos`: the planner sees `colaReady` empty (232), `main` adds a trainer and
  signals (`main.c:178-183`), the planner waits (235). Since every one signals only
  at size 1, it sleeps until the queue is emptied, which only it does.
* `falsos`: `calcularMatriz` makes one pass, so a trainer visited early is not helped
  by one visited late; trainers that are not deadlocked may be made to fight.
* `olvidado`: `hiloBlock` frees a message (196-197) and keeps the pointer; `main`
  compares a symbol of that memory and may remove another trainer from `colaBlock`.
* `maestro`: the first game is lost and restarted with an 's'; `initEntrenador` calls
  itself (`entrenador/src/main.c:175`). The second is lost too, and the newline that
  `getc` left answers its question. The inner call frees the trainer and returns
  (180-181) to the loop of the first, which ends with "Me converti en maestro pokemon".
* `rmdir`: `deleteDirectory` finds the directory empty (`osada_utils.c:451-452`), another
  client's thread, which had already found it, creates a file in it (245-268), and it is
  marked DELETED (456). The file has no directory any more, or the next one to get its
  slot.

Fairness (`Justicia`): weak fairness of each thread of the map and of each
connected trainer. The threads are never blocked by a handler, the system schedules
all of them, and a condition or a `recv` disables its thread until it is signalled
or there is something to read. Nothing makes a trainer connect, die by a kill, or the
map receive SIGUSR2. Liveness is stated as "or the map is dead" (`fallo # "no"`)
where the code may kill the process: safety of those deaths is not what it is about.

In `PokedexServidor`, weak fairness of main accepting a client and of each thread that
attends a request, and strong fairness of taking the lock of a file: it is released
again and again, and whoever waits for it gets it in the end. With more clients that
read without a pause it would never be free, and a write could wait for ever: strong
fairness does not help there, and two clients do not show it. In `PokedexCliente` weak
fairness of a client that has its answer, or whose server died, and of the bytes of a
request; nothing makes a client call or be killed. `TodaLlamadaVuelve` holds also by the
death of the client with its server: a file that another client deleted between
`isExist` and the second lookup kills the server (`LeerNada`, `EscribirNada`,
`ReaddirNada`, `ListarNada`), and so may the log another thread destroyed.

In `Viaje`, weak fairness of the process and of a `cp` it left running, and of nothing
else: no map has to answer, no player to type, no signal, failed connection or fall to
come. A map really may leave a trainer for ever, blocked (the pokemons of those that left
do not come back, `mapa/src/main.c:209`) or ready (run `dormidos`). So `ViajeTermina`
says that the journey goes on for ever only by somebody else: it ends; or a message was
cut in its body, and the loop of `recibirBuffer` has no way out; or from some moment on it
waits for an answer the map owes it or for a character of the player; or the map has it
fight without end, neither killing it nor giving it a pokemon (`PeleaSinFin`). What is left to
violate it is the process itself: lives that do not run out, games nested in games, the
loop that a game given up returns to.

## 4. The proofs

All for every value of the constants, from the named assumptions of the modules that
declare them (`Estado`, `Calculo`, `Tramas`, `Viaje`, `Osada`, `PokedexServidor`). What is about the framing also
supposes `CabeceraEntera`, that a size arrives whole, and some of what is about the
map is false of this code as it stands; those theorems name what they suppose.

What is supposed of the map. The code counts on each of these, and does not ensure it:

* `Disciplina`: hiloBlock and hiloDeadlock are not both inside (`Exclusion`, which run
  `exclusion` shows is violated), *and* main and hiloDeadlock are not in `popEntrenador` at
  the same time (`UnPopPorVez`): each counts `colaBlock` before its mutex
  (`queue_utils.c`), and the size is stale if the other one adds or takes out. `Exclusion`
  alone is not enough, from three trainers on: with `colaBlock` = [c], hiloDeadlock
  counts 1, main counts 1, the planner adds e, main's `popEntrenador` for somebody else
  rotates once and leaves [e, c], and that of hiloDeadlock looks at e only; c goes
  to `colaReady` and stays in `colaBlock`. The two trainers of `batalla` hide it.
* `PeleaResuelta`: hiloBlock does not serve a trainer whose message is still
  `BATALLA_POKEMON`, "supuestamente se arreglo el deadlock" (`deadlock.c:515`). A winner for
  whom there was no pokemon goes back to `colaBlock` with that message, and hiloBlock
  would repeat the challenge before the pokemon.
* `MismoAlgoritmo`: no reload changes the algorithm. The answer withheld at the end of a
  turn of RR is sent by RR only, and RR sends it to whoever waits (`planificador.c:292-296`),
  answered or not. `ronda` has one reload, which does not reach it; with two and a killed
  trainer TLC finds the second answer under way behind the first, and
  `PedidoRespuesta` is false.

These are hypotheses about histories (`Spec /\ []Disciplina => ...`), and `batalla` follows
histories with them: fights, deaths, kills. And none is needed by a map without fights
and with one algorithm: `SinBatallas`, `SinBatallasEnOrden` and `SinBatallasTurnoAcotado`
derive the same of `Spec` alone, with every kill and every reload of the rest of the
configuration; so does `SinBatallasPosicion`. Nothing is supposed of the quantum, the lives
or the kills: `TurnoAcotado` says how long a turn is for each quantum, and
`PosicionAlCapturar` is of a trainer in its first life that has not left. It has to be: one
that comes back before main notices that its last visit ended has two sprites of the same
symbol (`mapa/src/main.c:167`), and it is the old one that moves; and main takes the sprite
of a killed one away before it takes the trainer out of `colaBlock`. Its first life may run
beside the second one of another, with fights and kills, in the theorem and in `batalla`.

* `Calculo_proofs`: `Deteccion_Completa` and `Deteccion_ConMotivo`, that is
  `Spec => []AbrazoDetectado` and `Spec => []ListadoConMotivo`. The first needs, for a
  set `S` whose members each hold what another one of `S` waits for and wait for
  something nobody outside `S` can give: while no member of `S` is marked, no unit they
  wait for becomes free and each of them is still awaited, so none can be marked
  next. The second keeps, for every row not marked, that it is as it was built and
  that what is free only grew.
* `Tipos_proofs` begins with the queues: what `EnOrden`, `Quitar`, `Rotar` and
  `PopEntrenador` return is a queue of the same type that invents and repeats nobody;
  `popEntrenador` takes out those of the symbol it is given if they are in the part it
  counted (`ColaPop`), and only those if it counted the queue as it is
  (`ColaSinEntrenador`). Then `Spec_TypeOK` (`Spec => []TypeOK`) and `Spec_Tipos`. `TypeOK`
  is not inductive: `Head` of an empty queue has no type. The invariant is
  `Tipos == TypeOK /\ Punteros`, where `Punteros` says that whoever is about to use a
  trainer or the head of a list has one (the planner about to serve, the fighters of
  the deadlock thread, main about to accept, goals left for a trainer that has not
  greeted). One lemma per action, one step per conjunct it can disturb.
* `Lugares_proofs`, where pokemons and trainers are. `Spec_UnicoLugar` and
  `Spec_CantidadExacta`: only `Entregar` and `LiberarRecursos` move pokemons (lemma
  `QuienMueve`), and each keeps both, whatever the threads do. `Spec_EnUnSoloLugar`,
  `Spec_DerrotadoFuera` and `Spec_CumplePromesa` need `[]Disciplina` and the invariant
  `Lugares`: each queue names a visit once (`UnaVez`); whoever is in a thread's hands is
  in none of the others' (`Manos`, `Separado`); the size a thread counted is still good for
  whoever it looks for (`Cuenta`); a visit that has not begun is nowhere (`SinEmpezar`),
  and one that lost is only where the threads throw it out (`Derrotado`). The
  fighters are in `colaBlock` and in `peleadores` at once, until `popEntrenador` takes
  them out: that is why the property counts the queues and hands that it counts. The refinement
  of `Recursos` is step by step: a step that moves pokemons is one delivery to a visit
  that goes on (`LugarExacto`) or the release of one that ended. `SinBatallas`: without
  fights hiloDeadlock takes nothing (`Quieto`), so `Disciplina` holds.
* `Conversacion_proofs`, who speaks to whom. `Charla` says, for each place a trainer may be
  in (waiting to be accepted, in its turn, challenged, being served, told of its death,
  anywhere else), what the two directions of its connection may hold; `Guardado`, what
  message the map keeps of those that wait; `Algoritmo`, that the planner is where the
  algorithm says; `Visitas`, that a trainer comes back only after its last visit was
  ended by a death, so that a symbol names one visit of a queue (`SinTocayos`). `Papeles`
  follows from `Lugares`: nobody has two of those places. Together they are `Sabido`, an
  invariant of the histories described above, and give `Spec_PedidoRespuesta`,
  `Spec_NadieEsperaANadie` and the action property `Spec_TramasEnOrden`.
* `Cuentas_proofs`, what is counted. `Spec_MochilaAlDia` from `Mochilas`: what the map counts
  is what the trainer counts plus the delivery on its way, in every state of a visit.
  `Spec_NadieCae` rests on the detector: a trainer it leaves marked holds something
  (`EnDeadlockTiene`), so whoever is challenged has a best pokemon, also after it won
  (`Peleadoras`). `CalcularMatriz` goes over its tables with a recursive function on
  the naturals; `MinimoNat` (a non-empty set of naturals has a least member) is the induction
  that shows what its rows keep. `Spec_PlanificadorEncuentra` from `Elegible`: when
  distances are compared somebody does not ask for a location, and nobody but the planner
  could take it away. `Spec_TurnoAcotado` from `Cuantum`: what each trainer of the queue
  has used, by what it waits for.
* `Posicion_proofs`, where the sprites are. First the ways: `PasosY` and `Punto` give in
  closed form where k steps of `calcularColaMovimientos` lead (one along y, one along x,
  until one of the two distances is over, and then the other one); `AndaUno` and `AndaHasta`
  say that a step drawn leads to the next point, and the last one to the pokenest. The
  invariant is `Sitios`, one `Sitio` for each trainer, by the place it is in: blocked, its
  sprite is on its pokenest; between two pokenests, sprite and trainer are at the same point;
  on a way, the steps that the trainer still has lead from the sprite to the pokenest, once
  the step that is on the wire is drawn. `Aparte` is what a step that is not about a
  trainer does to it, so that each action shows only what it does to the trainers it
  names. `Sitios` needs `Sabido`, for which place a trainer is in is known by its
  conversation. `Spec_PosicionAlCapturar` adds `NadieCae`: nobody dies by itself.
* `Viaje_proofs` begins with the framing: `TramasImplementaCanal`, `SpecTramas => CumpleCanal`. The refinement
  needs `InvTramas`: only the last frame of a connection that was cut loses bytes; only
  the first frame is half read, and only inside `recibirBuffer`, which waits for
  exactly what is left of it. So a `recv()` that ends a wait ends a frame, and one that
  ends a frame without ending the wait was the last of all. `AbstractoEs` gives the actions
  of `Canal` under the mapping; each step of `Tramas` is one of them or a stutter.
  Then the journey. `ViajeCumpleCanal`, as every step of the journey uses its connection by the
  steps of `Tramas` (`PasoDeViaje`). `ViajeTypeOK` and `ViajeMaestro` come from `InvViaje`:
  at the bottom of the stack is main's game, a game past `"viaje"` is in a map of the
  list, and each game of the stack, the interrupted ones too, left behind only maps that
  have their medal or were not reached. `ViajeConVida` adds `InvVida`: if the last game is in
  a map it has a life, *and* each handler above it will leave one when it writes what it
  had read; without the second part the write of an interrupted handler breaks it. The
  lemmas `CambiaVale`, `LlamaVale` and `RetornaVale` (and `...Vida`, `...Bill`) say what a
  change, a call and a return of the stack keep, and the steps cite them. `ViajeBill` comes
  from `InvBill`: what the list has is in the Dir de Bill or on its way there, and,
  unless a SIGTERM left its question over the stack, there is nothing else there, only
  the last game called copies, and only the pokemon it has just got. A handler
  that begins a game again ends every game below, so it is enough to know the last
  one; the exception is the question without lives, under which a copy may end later.

* `Pokedex_proofs`, the server and the clients of the pokedex. First the walks: `Camino` is a
  recursive function, and `MinimoNat` again shows that there is one of each length (`HaySenda`)
  and that it stays in whatever is closed under the links (`Cerrado`).
  - `SpecTypeOK`, from `Tipado`: `TypeOK` says that a local variable may be no file, and most
    steps use one. `Hilo` says, for each step and request, what the thread has: a file from the
    lookup on, a path while it looks up, blocks while it clears them, the source and the
    destination of a rename; and that the step belongs to the request (`EnEtapa`). The
    lookups go on to a step kept in `sigue`, so `Hilo` speaks of the step to come.
  - `SpecCerrojos`, from `Tipado`: it is inductive with it, as a step that
    neither takes a lock, nor releases it, nor copies, is far from them (`AtenderLejos`).
  - `SpecCadaLlamada` and `SpecRetornoVeraz`: each call is `Pendiente`, `Atendida` or `Respondida`,
    and before its answer it has shown nothing, but for the delete inside a rename, after which
    nothing can fail any more (`renameFile` looks at no other result). A create shows its file
    and answers in one step, under `mutexTabla`.
  - `SpecRepartoConCuidado` (`Spec => RepartoConCuidado`) says that a step that is no slip
    keeps the blocks shared out; `SpecSinCompartir`, `SpecCadenaOcupada` and
    `SpecAislaArchivos` that in every history, until the first slip, no two files share a
    block, what they use is taken, and nobody's chain changes under the steps of others.
    Nothing is supposed: neither of the requests nor of the word before the table. The properties
    speak of chains, and a block is in no chain between its reservation and its link, or is
    still in one when it is released: they are not inductive. `Reparte(d)` gives each block
    an owner `d[b]`: a file, nobody, or the thread that set it apart (a write before its
    link, a truncate before its release). Owners are in the bitmap, links and first blocks
    stay within an owner, a thread holds blocks of its own file or its own set apart. The
    invariant is `Ordenado`: `~tropezo => Separados /\ Reparto` (`SpecOrdenado`). `Separados`
    is in it because a slip that begins before a step and ends with it is seen in the
    next state (`Resbala`). Each step that reserves, links or releases has its lemma with the new `d`
    (`PrimeroReparto`, `SiguienteReparto`, `EnlazarReparto`, `SumarReparto`,
    `TruncadoReparto`, `CrecerReparto`, `AchicarReparto`, `EscribeReparto`,
    `LiberarReparto`...), which uses that its thread does not slip; the others leave `d` as
    it was (`AtenderSuave`, `SuaveReparto`). A truncate that cuts needs that its chain is
    entire (`CadenaEntera`), so that the blocks released are the ones after the last kept,
    each once. `Intacto` says the same of the chain of a file nobody works on.

These results are about the model's grain: a delivery is one step, and so is a
release (section 2); in `Viaje`, the read and the write of `vidas` are two.

The candidate invariants were checked by TLC first: `Lugares`, `Sabido` and `Mochilas` on
two trainers with two lives and fights (1.09 million states with RR; 2.10 million with SRDF,
a reload and a killed process), `Sitios` on two with one life, a killed process and
pokenests some steps away (up to 3.45 million), `InvBill` on the instance of `viaje`,
`Reparto` in the run `osada`.

Only model-checked: the liveness properties (`TurnoLlega`, `DespiertaPorPeriodo`,
`CicloSeRompe`, `ViajeTermina`, `TodaLlamadaVuelve`), which are out of the prover's reach, as
is ENABLED.

## 5. What is not modelled

* Of the pokedex server, the errors of `main` and the SIGPIPE of an answer to a client
  that left. Of the client, `flush`, `open` and `getxattr`, which do nothing.
* Of `Sockets/`, the layout and the byte order of each message, and the creation of a
  server (`socketes_servidor.c`).
* Of the journey, levels, times and the counters of the log. A trainer meets one map at a
  time, and the maps of `Viaje` only answer what `Mapa` shows a map may answer.
* Drawing, logs, scripts, parsing of metadata: I/O and layout.
* Third-party code (so-commons, pkmn_battle, ncurses, FUSE, pthreads) is modelled by
  what the source expects of it.

Met while modelling, in the model and not claimed by a run since no text of the
repository says otherwise: the pokemons of a trainer that finishes or leaves never
return (`main.c:208-209`); a first message that never comes kills or blocks `main`
(`main.c:155-161,196`); a winner that leaves kills the deadlock thread
(`deadlock.c:546`); a reload from RR to SRDF forgets the answer withheld
(`planificador.c:292-296`); a trainer keeps its pokemons in memory across lives, so
`MochilaAlDia` is stated of the first life (`entrenador.c:196-209`); a client that is
killed while another one is served may take the server with it, through `log_serv`
(`pokedex_servidor.c:11,19`); `mkdir` says 0 whatever the server answered
(`pokedex_cliente.c:170-175`), two clients that delete the same file are both told that
they did, and a write to an empty file that finds no room keeps the block it reserved
first (`osada_utils.c:313-349`): `RetornoVeraz` is about names, places and sizes, and
about `CREATE` when it says that something was done.

## 6. Plan

Done, in this order: `Deteccion` and `Calculo`; `Colas`, `Estado` and the threads;
`Mapa`, its invariants and refinement; liveness; the proofs above; `Osada` and
`PokedexServidor`; `Tramas` and `Canal`; `Viaje`; `PokedexCliente`; the proofs of the
framing and of the journey; those of the hand-over, the conversation, the counts and the
Dir de Bill; those of the sprites; those of the pokedex.

Next:

1. A run on reloads and wake-ups: the answer withheld across RR and SRDF, the wait on
   `condBlockEmpty`, three trainers in a reduced fight (a winner blocked again).
2. A run on what the comment at `osada_utils.c:583` says of a truncate.
