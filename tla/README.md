# LuminaOS: verification

LuminaOS is a small 32-bit operating system: a kernel with a FAT16 driver, a
heap, a page allocator, a loader that runs one program at a time in ring 3, a
keyboard and a mouse, a shell and a simple desktop. This directory keeps TLA+
models of it, the TLC configurations that check them and the TLAPS proofs of
what holds for every size. Paths in this text are relative to `src/`.

`PROJECT.json` lists for every definition the lines of code it models, for every
property a mutation of the model that breaks it, and for every hazard of the
code the properties that are aimed at it.

## 1. The system

### How it runs

There is one CPU and no second thread. `kernel_main` (kernel/kernel/main.c)
initialises everything in order and calls the shell (`_start` of
LuminaOS-SDK/examples/shell.c), which never returns. What runs at the same
time as the shell, or as kernel code called by it, is:

- **interrupts** of the timer (IRQ 0), the keyboard (1) and the mouse (12), whose
  handlers run with the interrupt flag clear and share plain variables with the
  interrupted code;
- **one program in ring 3**, started by the shell's `run`, which enters the kernel
  by `int 0x80` and leaves it for good by `exit`, by an exception (the
  machine stops), or by a timer interrupt that finds its time used up.

```
   shell.c ---- commands ----> fat16.c --- sectors ---> ata.c
     |  \------ characters --> tty.c                    (may fail, may stop)
     |  <------ getchar ------ keyboard.c <--- IRQ 1
     |
     | run: lsp.c --> fat16.c, paging.c --> pmm.c
     |        \--> usermode.asm --> [ program, ring 3 ] --int 0x80--> syscall.c --> drivers
     |                                       ^                          |
     |                                       | preemption               v
     |                              irq.c: timer.c, sched.c <------ sched.c
     \-- ui: desktop.c --> gfx.c, mouse.c <--- IRQ 12, lsp.c
```

### Components

| Component | State | Operations | Talks to |
|---|---|---|---|
| FAT16 (`fat16.c`) | the disk: FAT, directory slots, data; `fs.cur_cluster`; `fat16_next_attr` | write, read, delete, mkdir, cd, list, total size | `ata.c` below; shell, loader, system calls above |
| Scheduler, timer, system call entry (`sched.c`, `timer.c`, `usermode.asm`, `syscall.asm`, `irq.c`) | `user_active`, `user_start_tick`, `preempt_pending`, `tick_count`, EFLAGS.IF, the saved kernel stack | enter ring 3, yield, tick, exit, sleep, preempt | every program, all IRQs |
| Heap (`heap.c`) | headers in memory, the free list, two counters | `kmalloc`, `kfree` | kernel code |
| Pages and loader (`pmm.c`, `paging.c`, `lsp.c`) | the bitmap, `free_pages`, `user_pt` | allocate, free, map, load and run | shell, FAT16, `gfx.c`'s back buffer |
| Keyboard (`keyboard.c`) | a ring of 256 slots (255 characters at most) with two indices, the shift flag | interrupt handler, blocking and non-blocking reads | shell, `getchar` |
| Line editor (`shell.c`) | the line, the history ring and its walking position | typing, erasing, recalling, entering | keyboard, screen |
| Screen (`tty.c`) | cells, cursor | put a character, clear, scroll | everything that prints |
| Sessions (`shell.c`, `main.c`) | `sh_user`, `sh_cwd`, `sh_fs_ready`, USERS.DAT | boot, login, register, logout, cd, reboot | FAT16 |
| Mouse (`mouse.c`) | the packet being received, position, buttons, the click flag | interrupt, `mouse_init` (again by every `run` and `ui`), reading, taking a click | the mouse by the port that both of these read; desktop, system calls |
| Desktop (`desktop.c`) | the position last read, whether to draw, the pending file of `open_file` | its loop, clicks, running a program and NOTEPAD behind it | mouse, loader, graphics, system calls of its programs |
| Graphics (`gfx.c`) | the mode, the back buffer at 4 MiB, the buffer drawn to, the clipping window, the cursor's place and saved block, the wide font | drawing, text, flushing, the cursor, windows | desktop, system calls |
| Descriptor tables and exceptions (`gdt`, `idt`, `isr`), boot, ATA port I/O, build scripts | written once, or none | | |

### What is hard here

- *Interleaving.* `sched_user_enter` and `sched_note_yield` update three variables
  that a tick reads, with interrupts on; the keyboard reader moves the tail of a
  ring that an interrupt fills; position and click flag of the mouse are read one after
  the other by the desktop and by system calls, and `mouse_init` polls the port
  that the interrupt handler reads.
- *Stale copies.* The cursor puts back a block of pixels saved before the picture
  under it changed; a click is acted on at a position read before it.
- *Edges of integers and texts.* Clipping moves a start and must shorten a length, on
  four edges of two areas; a text may end in the middle of a character.
- *Failure and crashes.* Every sector access may fail and the machine may stop
  between two writes; `fat16.c` ignores the results of several of them and its
  calls are chains of up to a dozen writes.
- *Limits.* The volume, the directory, the window of 1024 pages, the pages (no
  program gives any back), the ring, the history and the path are all bounded.
- *Long sequences.* A heap after many splits and merges, a second `kfree` of a
  pointer, the history ring after it has turned, a directory removed while it
  is in use, sessions one after another.
- *Liveness.* A program that loops, a chain that is walked, `cd /` that climbs and
  tries again.

### What makes each component right

- **FAT16**: chains never meet and never run into free clusters; every name owns a
  whole chain of one write's data; an operation touches only its own file;
  names are unique; nothing leaks; `..` leads back; every call returns.
- **Scheduler**: only a program out of time is preempted, and every such program
  is; the kernel's record of a running program is exact; a sleep is not short;
  the keyboard stays alive.
- **Heap**: live blocks are disjoint and as large as asked for; memory is neither
  lost nor doubled; a refusal means that no gap fits.
- **Pages and loader**: no page has two owners; a program starts with its file and
  zeros and nothing of others; the count is exact; every page in use is somebody's, or was
  lost in one of the ways that the code has; memtest is honest.
- **Keyboard**: a bounded queue.
- **Line editor**: the line that runs is the line on the screen; the history is
  the last lines in order.
- **Mouse and desktop**: while the driver is in step with the mouse, pointer and
  buttons change by whole reports; a press is taken at most once, and not dropped; a
  click does what is under the pointer; a file asked for is offered to NOTEPAD
  once; the pointer ends up drawn where it is.
- **Graphics**: what is drawn is what is asked for, cut off at window and screen; the
  cursor leaves nothing behind; the screen shows whole frames; no text is read
  behind its end, and none is drawn wider than measured.
- **Sessions**: the prompt's path is where the file system is; a session that ends by
  logout leaves its directory to nobody (a login over a live session does keep it);
  accounts are unique; leaving always succeeds.

## 2. The modules

| Module | Models | Is used by |
|---|---|---|
| `Fat16` | `fat16.c`, one sector write to a step | `Fat16Volume` |
| `Fat16Volume` | no code: which blocks make up which directory (`own`), as a ghost of the volume's state, and the invariant stated with it | `Fat16Files` |
| `Fat16Files` | no code: what the driver keeps for its callers (`FilesIntact`, `OthersUntouched`, `OnlyUsersHidden`), stated by the sequence of clusters that a file must have instead of by following its chain | `Fat16Tree` |
| `Fat16Tree` | no code: what it keeps of the tree of directories (`NamesUnique`, `TrailSound`, `NoLeak`), and the invariants behind that; the blocks of a directory, and what the root leads to, are what every set closed under the links contains | `Fat16Promise` |
| `Trees` | no code: directory trees as sets of entries, and what their root leads to | `FileTree`, `Fat16Promise` |
| `FileTree` | the promise of the file system (abstract): a tree of named files that a call changes in one step or not at all | `Fat16Promise` |
| `Fat16Promise` | no code: the tree that a volume stands for, with which `Fat16` implements `FileTree` | `MCFat16` adds constants, a view and `CallsReturn`; `Fat16Proofs` |
| `Sched` | `sched.c`, `timer.c`, `usermode.asm`, `syscall.asm`, the relevant parts of `syscall.c` and `irq.c`, one statement to a step | `MCSched`, `SchedProofs` |
| `Allocator` | the promise of the heap (abstract) | `Heap` |
| `Heap` | `heap.c`, one call to a step | `MCHeap`, `HeapProofs` |
| `Memory` | `pmm.c`, `paging.c`, `lsp.c`, memtest, the back buffer, one page to a step | `MCMemory`, `MemoryProofs` |
| `TypeAhead` | the promise of the keyboard (abstract) | `Keyboard` |
| `Keyboard` | `keyboard.c`, one access of the reader to a step | `MCKeyboard`, `KeyboardProofs` |
| `Tty` | `tty.c`, as operators on a screen | `LineEditor` |
| `LineEditor` | `sh_read_line` and `sh_hist_add`, one character to a step, composed with the screen | `MCLineEditor`, `ShellProofs` |
| `Pointer` | the promise of the mouse (abstract) | `Mouse` |
| `Mouse` | `mouse.c`, one byte, or one read of the port, to a step | `Desktop` |
| `Desktop` | `desktop.c`, the mouse's and the file name's system calls of `syscall.c`, one read of the mouse to a step | `MCDesktop`, `DesktopProofs` |
| `Text` | the text of `gfx.c`: UTF-8, layout, measuring, the wide font | `Gfx` |
| `Gfx` | the drawing of `gfx.c` under the desktop and the drawing system calls, one routine to a step | `MCGfx`, `GfxProofs` |
| `Shell` | boot, sessions, accounts and the path, one command to a step | `MCShell`, `ShellProofs` |

Operators whose comment says *a mutant* are not part of the model. Each is the
form that a plausible mistake would give to the operator after it, with which the
run's property fails; they show that the property watches the code.

### Fat16

State: `fat` (the first copy of the table; the driver never reads the others),
`dirs` and `data` (each cluster read as directory slots or as file data: with one
sector to a cluster, as the image is built, a cluster is one block), `cwd`,
`nextHidden`, and a running call's `pc` and locals `op`. The driver is entered by
one caller at a time. So an operation is interleaved not with another one but
with failures: each read may fail, each write may be `ok`, `lost` (an error,
nothing written) or `late` (an error, yet written), and `Crash` may come at any
step, after which `fat16_init` runs again on what the disk holds.

A call is a sequence of steps. `FindHit/End/On/None` is `fat16_dir_find`,
`SlotHit/On/None` is `fat16_dir_first_free`, `Extend*` is `fat16_dir_extend`,
`FreeOne`, `FreeReadError` and `FreeDone` are `fat16_free_clusters`, `AllocCluster`,
`LinkCluster`, `WriteBlock`, `AllocFails` and `Seal` are the loop of
`fat16_write_file_in`, `MkdirBlock` and `SetEntry` end `fat16_mkdir`, and
`MarkDeleted` begins the end of `fat16_delete_file`. `cd ..` is one step (`CdUp`).
Reads, listings and sizes change nothing; their answers are what `FilesIntact` is
about.

History: `trail` (the directories entered), `dirSet` (which clusters were last
written as directories) and `damage`. The driver ignores the results of some
writes, and an overwrite frees the old chain before the new one exists, so a
failure there *does* leave a broken volume. `damage` names each way in which this
is known to happen:

| Cause | What the code leaves |
|---|---|
| `overwrite` | an entry that names clusters already freed (`fat16.c:439`, then a failure or a crash) |
| `extend` | a directory linked to a cluster that is free or not cleared (`:234-242`) |
| `lostset` | a cluster that was not marked or linked, its FAT write having failed unseen (`:466-470`) |
| `stalelink` | a cluster that was not freed, still linked (`:149`) |
| `mkblock` | a directory whose dot entries were not written (`:621`) |
| `uprooted` | a file written over a directory on the way to the current one (`:438`) |
| `orphan` | a directory deleted with entries in it: they leak |
| `blind` | a name entered again after a failed look-up (`:298`, one answer for two meanings) |
| `attr` | the attribute meant for a failed write of USERS.DAT |

The safety properties hold while the causes that concern them have not occurred,
so they say that **these are the only ways**: any other error or crash, at any
other step, leaves the volume sound. This is the reading in which the runs are to
be taken, and why they do not explore what happens on a volume already broken.

### FileTree and Fat16Promise

`FileTree` knows a set of entries (the directory it is in, its name, the directory it
is if it is one, what it holds and how long it is), the current directory and the
call that runs. A write puts one entry in the place of all of its name (`Put`), a
`mkdir` adds one with a directory that nothing else names (`Make`), a delete takes one away
(`Remove`), with all that was below it. `Enter` and `Up` move about. What the code
does in one call that is *not* one step is said by name: a write over a name in use
first gives the old file up (`GiveOld`), and if it then fails nothing is promised any more
(`Break`); a delete is over for its caller later than for the tree (`Done`), and
with a disk that reports errors may have removed the name although it says it failed. A delete or
`cd` fails only when there is nothing of the name to delete or enter; `write` and `mkdir` may fail
without a reason given, since the tree knows nothing of space.

`Fat16Promise` maps the driver's state to it. An entry is a slot with a name, in
any block of its directory (`Listed`), read with the contents that the first cluster has (that
the others hold the rest of the same write is `FilesIntact`); the slot whose chain was given up is left out
(`Shown`). `Tree` is what the root leads to: clusters freed while a directory is taken apart,
and files in a directory that was deleted, are not part of it. `Working`, no damage and
no failed look-up, is the negation of `broken`.

### Sched

`pc` runs through the shell waiting for a key, the statements of
`sched_user_enter`, ring 3, the statements of `sched_note_yield`, the dispatched
call, and `timer_wait`'s test and `hlt`. `reg` is `timer_ticks()` read and not yet
stored. `TimerIRQ` and `KeyIRQ` come between any two of these steps while `IFlag` is
set; a tick that finds the quantum over and the program in ring 3 resumes the
kernel from within the handler (`kernel_resume`), with the flag the handler had,
which is clear. A tick during a system call only leaves `preempt_pending`.
`since`, `ran`, `slept` and `killed` are history.

Numbers wrap at `Wrap`, as `uint32_t` do. `MaxKeys` and `MaxSleep` bound the typed
characters and the arguments of sleep.

### Heap and Allocator

`hdr` is the memory as far as it can be read as block headers: merging and splitting
leave old headers behind, callers overwrite them (`Fill`), and a second `kfree` of
a pointer looks at whatever is there. `list` is the free list. `Kmalloc` is the
first fit and the split, `Kfree` the checks, the insertion by address and both
merges. `Allocator` knows only live blocks: an allocation is any place that fits,
with at most `Slack` bytes more than asked for, and a refusal is allowed only when no gap
fits. `Heap` implements it with `live` mapped to the held blocks; a second `kfree`
is a stutter.

### Memory

One step takes one page. `Run`, `MapPage` (image, then stack), `ReadFile`, `ZeroBss`
and `Enter` are a successful load; `MapRefused`, `NoPageToMap` and `ReadFails` its
failures, after which mapped pages stay mapped; `PageFault` is the clearing of a
fresh page whose address lies in the user window where nothing is mapped.
A program is the size of its file (`size`) and the two sizes in its header, which the code
does not compare with it or with the window: `Total`, their sum, wraps at `Width` as
`uint32_t` does, so an image may get fewer pages than it says, or none. `Written` is
what the kernel's writes behind `USER_BASE` do then: they go to the pages that the page table
maps, past the window to the memory itself, and wrap. One that no table maps stops the
machine (`LoadFaults`); where one reaches the kernel's own pages the model stops too, since
nothing can be said of what follows.
`content` says of each page what a program would find. `Memtest*` follows
`do_memtest`. `Draw` writes the back buffer, which no allocator knows of. History:
`spent` counts pages handed to loads, also to those that failed, and `lost` has the
pages that were taken and that no table and no local names any more. The boot's allocations
are the initial state.

### Keyboard and TypeAhead

Make and break codes are `Press` and `Lift`; the reader has a step for seeing the
ring not empty, for reading the slot and for moving the tail. Releases of keys
other than shift, and the prefix 0xE0, change nothing and are not steps.
`TypeAhead` is a sequence of at most `Slots - 1` characters; the mapped queue is the
ring from tail to head, and the reader's last step is the abstract `Answer`.

### LineEditor and Tty

Each character is an action; `ESC` takes two more. `screen` is the record that
`Tty` operators act on. A command's own output is not modelled: after `Enter` the
screen has the next prompt on the next row, or on the first after `clear`. Tabs
and other unprintable characters are left out.

### Shell

`cwd` is the directory as a path (which `TrailSound` of `Fat16Tree` justifies: `..`
leads back), `shown` the prompt's path as pieces between slashes. Commands are
one step, except for `register`, which reads and writes USERS.DAT in two, and for the
climbing loop of `cd /` and `logout`. A piece has `PieceLen` characters with its slash.
`open` says that USERS.DAT ends without a newline, as the command `write` leaves it: the
line of the next `register` is then a part of the last one (`Glued`: the rest of its password,
which is no password that `register` takes, or the end of a name). `NoUser` stands for
the names that no `register` takes. History: `entrant` is who went into a
directory last, `over` that somebody logged in over another user's session, which `do_login`
does not ask about.
Upper and lower case of a user's name and its cut at 15 characters are left out:
users are what remains after both.

### Mouse, Pointer and Desktop

`packet`, `cycle`, `x`, `y`, `left`, `right` and `click` are `mouse.c`'s variables. The
mouse sends reports of three bytes (`report`, `sent`); `MouseByte` is the interrupt that
hands the next one to `Callback`. `polls` counts what `mouse_init` still has to
read: each read may get the controller's answer, or a report's byte once an
earlier call has installed the handler (`PollSwallowsByte`), or find that the
interrupt was quicker and took the answer 0xFA for a report's byte
(`InterruptReadsAnswer`). Bytes are lost in no other way: the line is not modelled
as lossy.

`Pointer` knows whole reports only. It is *steady* where the driver's bytes are
those that were sent (`Synced`); unsteady, it promises the edges of the screen and
that no press disappears. `Desktop` implements it, so neither the
interrupts between the test and the reset of `mouse_click_consume` nor the two
readers of the flag break the promise.

`pc` in `Desktop` goes through the statements of `desktop_run` that touch the mouse
(`LoopX`, `LoopY`, `TestClick`, `LoopReset`, `Draw`), of `dt_run_app` (`PrepareWin`, `Enter` or
`LoadFails`, `Exit` or `Preempted`, `Launched`) and of `sc_mouse_click` and
`sc_win_should_close` (`Peek`, `CallX`, `CallY`, `TestClick`, `CallReset`). `ints` is the interrupt
flag, which a preempted program leaves clear. `still` (no report came since the
position was read) and `asked` (whose request the pending name is) are history.

### Gfx and Text

`back` and `lfb` are functions from pixels to colours, `fb` the name of the one that is
drawn to. `mode` says who draws: a program of the desktop (`app`), NOTEPAD behind
it, a program of `run`, or the desktop. Drawing routines are operators that return
sets of pixels: `Span` follows `gfx_fill_rect` statement by statement on one axis, with
ints that wrap at `MaxInt`, which is the product's code because the two axes do not
meet in it. A frame and a window's frame are one step each, since nothing but
the interrupts comes between their statements and these do not draw. Wallpaper and
icons are members of the set `Scenes`. `picture` is what the back buffer would be had
the cursor never been drawn; `stale` the pixels of the saved block drawn on since it
was saved; `ghosts` the pixels that a cursor has left wrong: by a program's drawing
under it, by a frame drawn over it, by `gfx_cursor_reset`.

In `Text` a text is its bytes without the NUL, and `ByteAt` gives the NUL behind
them. `CharsOf`, `PlaceOf` and `TextWidth` are the loops of `gfx_draw_text` and
`gfx_text_width`.

## 3. The runs

Every run finishes in less than three minutes with two workers. A name such as
`SchedSound` stands for a conjunction of parts that belong together and are read at the
same states; the table names the parts in brackets, and each has its own definition and comment.

| Run | Asks | Bounds |
|---|---|---|
| `fat16_faults` | With disk errors at every access and a crash at every step: are chains sound (`VolumeSound`: there is an assignment of blocks to directories that fits all that is on the disk and in the locals), files whole (`FilesIntact`), other files untouched by every step (`OthersUntouched`), are names unique and only USERS.DAT hidden (`EntriesSound`: `NamesUnique`, `OnlyUsersHidden`)? | clusters 2..3, 2 root slots, 3 slots in a directory cluster, 2 names, files of 0 to 2 clusters |
| `fat16_space` | On a disk that works but fills up, with directories that grow, or are deleted with entries in them: does every call return (`CallsReturn`), give back what it took when it fails (`NoLeak`), does `..` lead back (`TrailSound`), and is `FileTree` implemented (`KeepsTree`)? | clusters 2..4, 1 root slot, 3 slots in a directory cluster, 2 names |
| `sched` | Interrupts between any two statements: is only a program out of time preempted (`KillOnlyAfterQuantum`) and every such one (`ProgramLeaves`), in time and with an exact record of it (`SchedSound`: `TypeOK`, `ActiveWithProgram`, `NoRunaway`), is no sleep short (`SleepNotShort`), are keys heard (`KeysHeardUntilKill`)? | `Wrap` 11, quantum 4, `Hz` 2 (a tick to a millisecond, as `TIMER_HZ` 1000 is), sleeps up to 7, 1 waiting key |
| `sched_deaf` | Finding: `InteractiveShell` is violated | `Wrap` 4, quantum 2 |
| `heap` | Do blocks tile the heap, with free ones merged and counters exact (`HeapSound`: `TypeOK`, `Tiled`, `Coalesced`, `CountersExact`), and is `Allocator` implemented (`KeepsPromise`)? | 28 units, header 4, alignment 2, smallest split 8, width 128; requests 0, 1, 7 and one that wraps |
| `memory` | Programs of all shapes until memory is gone, with memtest and drawing: do bitmap, counter and page table agree (`PagesSound`: `TypeOK`, `CountExact`, `PagesExclusive`), is every page accounted for (`PagesAccounted`), does a program find what it should (`StartsClean`), away from the back buffer (`BackBufferApart`), and does memtest tell the truth (`MemtestHonest`)? | 14 pages of 16 that the width addresses, 2 of the boot, 2 of the back buffer, a window of 4 with 1 of stack; 9 shapes of program, of which some have a file shorter than the header says, two reach the stack or past the window, and three have sizes whose sum wraps |
| `keyboard` | Is `TypeAhead` implemented (`KeepsPromise`)? | 4 slots; keys with two characters, with one, with none |
| `editor` | Is the history the last lines (`HistorySound`: `TypeOK`, `HistoryIsLog`), does walking show them (`WalksTheLog`), is the line the one on the screen (`WhatYouSee`)? | lines of up to 3 of 3 characters, rows of 3 with a prompt of 1, 2 rows, 2 remembered lines |
| `shell` | Sessions on a failing disk: is the prompt's path true (`PathUsuallyInSync`), does logout lead home, and is who is below the root there by his own steps, but for a login over a live session (`SessionsApart`), are accounts single (`AccountsSound`: `TypeOK`, `OneAccountEach`), does every climb end (`ClimbEnds`)? | 3 names of users, one of which `register` refuses, 2 passwords, one with a colon, 6 directories up to 4 deep, one with a slash in its name; a path of 3 pieces |
| `shell_ready` | Finding: `ReadyMeansMounted` is violated | as above |
| `desktop` | The mouse's bytes between any two reads of the desktop and its programs: is `Pointer` implemented (`KeepsPointer`), do clicks act where the pointer is (`ClicksLand`), is every click taken (`ClickTaken`), is a file asked for offered to NOTEPAD (`DesktopSound`: `TypeOK`, `RequestOffered`), is the cursor drawn where the pointer rests (`CursorFollows`)? | a screen of 2 by 2, two reports, an icon that launches, one that reboots, a close box |
| `gfx` | Is everything drawn exactly where it is visible (`ClipExact`), does the cursor leave no trace (`ScreenSound`: `TypeOK`, `NoTrace`), do the desktop's frames show its scene (`FrameShows`), do programs stay in their window (`StaysInWindow`), is text decoded and not overrun (`ReadAsWritten`), is there room for it (`Measured`)? | a screen of 2 by 2, half of it a window, a cursor of 2 by 2, `MaxInt` 9, three rectangles; texts of up to 4 of 8 kinds of byte (`AnyTexts`), characters at all edges (`CodePoints`) |

`NotepadWhenAsked` of `Desktop` and `NeverTorn` of `Gfx` are not in a run: they are proved
(section 5) for all constants.

Why the bounds are enough to be interesting:

- `fat16_faults`: two clusters and two names suffice for files that overwrite each
  other, a directory, its extension by the second cluster, a chain of two, and a full
  volume. `fat16_space` has a third cluster: a directory with its extension and
  something beside it, or a directory in a directory. TLC's constraints `Clean`
  and `CleanButOrphans` cut behaviours where `damage` has been recorded: the
  properties speak of what comes before. For `CallsReturn` this means that it is
  checked for volumes without damage.
- `sched`: any number of ticks may come between two statements; `Wrap` is no
  multiple of the quantum, sleeps may reach over the wrap, and a sleep of 7 is
  longer than a quantum, so that a program may return from it with its time over.
- `heap`: up to four blocks fit, so that a block can be merged with both of its
  neighbours while another is held, and the last of them is one that is not
  worth splitting.
- `memory`: four pages lie below the back buffer, so the second or third program
  reaches it, later ones the window, and then nothing is left. The sums that wrap leave an
  image no page at all (it is refused), or one page for two of its file, or for fifteen.
- `editor`: the history turns, a line fills exactly its row or leaves it.
- `desktop`: the two reports move along both diagonals and one presses; with two
  by two pixels a move meets every edge, and each of the two icons, the close
  box and the free pixel is somewhere under the pointer. Pressing and releasing,
  losing any of the bytes and getting in step again by a second loss all happen.
- `gfx`: `ClipExact` is evaluated for all ints of the width, also those whose sum with
  the window's place overflows, and all sizes up to 3, larger than screen and window;
  the cursor hangs over the right and the lower edge, and lies over the window's.
  `ClipExact`, `ReadAsWritten` and `Measured` are about operators, not
  about a state; they are stated of the step in which the kernel comes up (`Measured`
  of the font loaded in it).

Views. Where a state has parts that no later step reads, a VIEW leaves them out of
TLC's fingerprint. `Readable` (contents of free clusters, and the reading
of a cluster that is not the one last written), `Memory` of the heap (bytes nobody
looks at again), `Seen` (pages nobody maps; a page is filled before a program
sees it, but for pages from the window, which `StartsClean` excludes),
`Visible` (rows above and below the cursor's), `Live` (bytes and locals that will be
overwritten before they are read). The invariants and step
properties are evaluated on all of the state that a run visits.

Deadlock is checked in the FAT16, heap, keyboard and editor runs. It is off in
`sched` (a shell gone deaf can stop, which is a finding; a program may also wait
for a key that nobody presses), in `memory` (an exception stops the machine) and in
`shell` (`halt` and `ui` do not come back) and in `desktop` (an icon reboots or halts; the run `gfx`
never stops, as a program may always draw).

### Fairness

- `Fat16`: weak fairness of the running call's steps. There is one CPU, and a call
  waits for nothing else; the disk's polling loops belong to `ata.c`.
- `Sched`: weak fairness of kernel code, of the timer interrupt while the flag is set,
  and of a latched keyboard interrupt while the flag is set. None of a program,
  which may loop, and none of key presses.
- `Shell`: weak fairness of the steps that cannot fail, and strong fairness of a
  successful `cd ..`: a disk that is asked again and again answers at some time. The code
  itself has no bound on its attempts, so on a disk that is dead `logout` hangs;
  the assumption is needed.

- `Desktop`: weak fairness of kernel code (`Kernel`): the CPU goes on, and a handler
  returns. None of programs, which may keep the CPU or never look at a click, none
  of the mouse, and none of a command at the shell.

## 4. What the runs showed

The properties hold, within the exceptions their text names. Two things the
repository says of itself do not; they are in `PROJECT.json` as findings:

1. **A preempted program leaves the shell deaf** (`sched_deaf`). `kernel_resume` puts
   back the interrupt flag that it finds, and the timer's gate has cleared it. The
   shell then waits for a key whose interrupt is masked. A program that exits
   is not concerned: `int 0x80` is a trap gate.
2. **The shell takes the file system for ready when it is not** (`shell_ready`).

Modelling met more places where the code does not do what a reader would expect. The
models contain them, and the properties except them by name:

- The arrow keys never reach the line editor: it waits for escape sequences, the
  driver sends none, so the history is reached only by typing ESC and two letters.
- The prompt's path and the current directory come apart by a path too long or a
  directory name with a slash (`PathUsuallyInSync`).
- A second `run` or `ui` may put the mouse's driver out of step with the mouse, and
  nothing brings it back but another loss (`KeepsPointer`: `Pointer` allows
  it only while `mouse_init` runs).
- A frame of the desktop puts the block of the last frame's cursor back before it
  draws the new one, over the new frame; so does the first `sc_cursor` of a program of
  `run` with the block that a program of an earlier `run` saved (`FrameShows`, `NoTrace`).
- A login over a live session keeps the directory of the other user (`SessionsApart`).
- `register` behind a USERS.DAT that `write` made appends to its last line: the new user has
  no account, or one whose name is the two run together (`AccountsSound` holds of what is there).
- Pages are lost when a program is mapped over the one before, when a slot is refused, and by
  memtest's FAIL; nothing gives them back (`PagesAccounted` names these ways and no other).
- The sum of the two sizes in a program's header wraps: the image may then be read, and the bss
  cleared, over memory that was never mapped for it (`StartsClean` speaks of programs that fit).
- An unknown wide character is measured wide and drawn narrow (`Measured`).
- An outline of width or height 0 draws two lines, one of them outside of where the
  rectangle would be (`ClipExact`).

## 5. The proofs

TLAPS proves, for all constants that satisfy the modules' assumptions:

**`Fat16Proofs`** (every size of volume, directory and file, all names, with disk errors
and resets or without). `TypeOK`: nothing the driver writes or follows lies outside the
volume. It is not inductive: that the cluster written, linked or cleared in the next
step is one depends on which steps of the call went before. `IInv` adds `CallSound`,
which says for each step what it finds in the locals (a cluster to fill, one to link it
behind, a write with data left). `LowestExists` (a non-empty finite set of numbers
has a lowest member, by the well-foundedness of strict inclusion) is what makes
the scans for a free cluster or slot return one.

`FatSound` (chains do not meet, names own heads, directories' chains hold directory
blocks, while no `damage` is done) needs more than the driver's own variables say: when a
call writes a slot or links a cluster, the proof must know which directory's chain the
block in hand belongs to, and no variable does. So `Fat16Volume` states it with a ghost:
`own` assigns to each block of a directory the first cluster of that directory, and
`Owners` is the set of assignments that a volume and a call admit. `VolumeSound` says that
there is one. What it must satisfy is in two parts. `OnDisk`: no two chains meet and a
directory's stays with its owner (`Chained`), an entry of a directory has a cluster (`Headed`), the
cluster that a name has is the head of a chain and no other live slot names it (`Named`), and each directory
entered is named in the one above it (`Entered`).
`InCall`: the directory, the block and the slot in the locals of the running call are of one owner
(`Searches`, `Place`), the cluster `mkdir` and `write` fill is nobody's, and the old and the new
chain of a write are apart (`OldChain`, `NewChain`). An action then either keeps the
assignment or changes it at one cluster, where a directory appears or gets a block. TLC checks `VolumeSound` on
`fat16_faults`; `FatSound` follows from it.

`FilesIntact`, `OthersUntouched` and `OnlyUsersHidden` are statements about every file in every
directory block, reachable or not. That a file is whole says that a sequence of clusters exists
which holds the blocks of one write in their order; no step but those of a call about that file
changes the entry, or any cluster of such a sequence. `FilesIntact` is not inductive. `FilesSound` adds that the chain
a running write builds is also such a sequence, of the blocks written so far (`Built`), and that no file's
sequence contains the cluster that the next one is linked behind (`Apart`); `VolumeSound` then gives
that a cluster taken, linked or freed is in no other file's sequence. The old contents of a
file that is overwritten are whole until the first of its clusters is freed, and from when the entry is written
the new ones are. `OnlyUsersHidden` needs that the attribute, once set, is there only
while the write of USERS.DAT in the root runs (`Flagged`), unless that write failed (`attr`).

`NamesUnique`, `TrailSound` and `NoLeak` are about the tree of directories, which the driver finds by following links.
What TLAPS can reason about is not the walk but its result: `Linked(b, c)`, block c comes
after b in a directory, says that every set closed under the links that has b has c
(`Follows`), and `Reached` the same for links and entries together (`Grown`). That it holds is
shown from any such set; that it does not, by exhibiting one. Lemmas say that it is
transitive, has a first and a last link, that what one block links to is in one line
(`LinkedLine`), and what a step makes of it: nothing but for a new block at the end of a
directory, a new directory, or a block that is freed (`SameLinksSteps`, `GrownLinks`).
Three invariants stand on `VolumeSound`. `WalkSound`: the block that a call
searches is linked from its directory, as is the one with its slot, and the ones with
the entries of the directories entered (`Placed`, `Led`); `TrailSound` follows. `NamesSound`:
behind an end mark come end marks only (`Ended`), and what a search has
passed has neither the name nor, for a slot, an end mark (`Sought`). The call that
finds the name missing, extends the directory, searches again for a slot and fills
it acts on what its first search saw: `Sought` is what is still true of
that at each step, and `Unique` follows. `Covered`: each cluster in use is reached from the root or from
what the call has in hand (`Held`: the rest of the chain it frees, the head of the one it builds, the cluster it is
about to link). Each step is shown backwards: a set that is closed after it and has what is then held, was
closed before, but for a cluster freed or linked (`GrownBack`), and so has all that is in use.

`KeepsTree`, the refinement of `FileTree`, puts these together, and the theorem goes further
than the run: with disk errors and resets too. `Rooted(T)`, the entries that the
root leads to, is a fixed point, and TLAPS gets at it by two lemmas: it depends only on the entries of the
directories in any set that has the root and is closed under the links (`RootedSame`), and one entry
more, for a file or an empty directory, is one entry more in it (`RootedMore`). From them come what
the three kinds of steps do to it. A step that fills or marks no slot changes the contents
of no listed file (`EntrySame`) and lists nothing new (`AtBack`); what it no longer lists is
a slot given up, or is in a directory whose chain is being freed, to which nothing leads
any more (`NamedNotFreed`): so the tree stays (`TreeQuiet`), or loses the name given up
(`TreeGiven`). `MarkDeleted` takes one name away (`TreeUnnamed`), `SetEntry` puts one in its place (`TreeSet`).
That the one slot is all that has the name is `Unique`; that no other has it when none was
found is `Sought`; that the call's own directory is still reached without the name it
replaces, which may be a directory, follows along the directories entered (`HereReached`, from `Led`).
`ReadyToChange` is the invariant that this needed besides: when a call comes to its change it
has written as many clusters as it was asked to, the directory it made has no entries, and
the slot to be marked is in the directory that was searched. A step that leaves nothing
promised is one after an error or a reset, one that fails with the old file given up, or the
shell's write of USERS.DAT where that name is a directory on the way to the current one
(`WhyBroken`).

**`SchedProofs`** (the widths, the quantum and the rate are arbitrary). `TypeOK`,
`ActiveWithProgram`, `NoRunaway`, `KillOnlyAfterQuantum` and `SleepNotShort`. None of the last
three is inductive. `IInv` adds
`SinceSound` (the elapsed time computed modulo 2^32 from `reg` or `user_start_tick`
is the true time since the last entry, while that is less than 2^32 ticks),
`PendingEarned` (where the clearing statement is behind the program, a
request means that a quantum has passed) and `RanSound` (the running time is at most
the elapsed time). The lemma `TickElapsed` is the only arithmetic; `TimerStep` is the
only step that moves time. The order of statements in `sched_note_yield` is what
`PendingEarned` rests on: it does not hold at the step before the clearing, where a
tick may have left a request computed from the old start. `SleepSound` is what
`SleepNotShort` adds: while a sleep lasts, the clock is as far from its target as the
sleeper from what it asked for, so that neither has passed the wrap.

**`MemoryProofs`** (every size of memory, window, stack and back buffer, every
program). `TypeOK`, `CountExact`, `PagesExclusive`, `MemtestHonest`, `PagesAccounted`,
`BackBufferApart` and `StartsClean`. `IInv` adds
`ReservedKept` (the boot's pages stay used, which makes a found page one that
may be given out) and `TestSound` (the first page of memtest was the lowest free
one, so that every page below it is used, and it is free again between its free and
its re-allocation: the scan must come back to it). Lemmas: `LowestFree` (the scan's result exists
and is lowest), `AllocateKeeps` and `ReleaseKeeps` (bitmap and counter stay in
step), `FreshPageExclusive`. Three further invariants stand on it. `PagesAccounted` is
inductive with `IInv`: a fresh page is in no table and not lost, so that what `MapPage` puts in a slot is
one page more and what the slot forgets is one lost (`AccountedAllocates`), and memtest's
second page is still its own when the first comes again (`AccountedTests`). `Orderly` says that the
bitmap is filled from below: behind the boot's pages come those handed to loads, `spent` of
them, then memtest's; with it
no page of a program reaches the back buffer before those below it are gone (`MappedLow`).
`Loading` says of every step of a load which slots are mapped by it and what their pages
hold so far; that a page is mapped in one slot only is why filling one leaves the others
as they are. `FitsTotal` (a program that leaves the stack its slots has a sum that does not
wrap) and `WrittenFills` (what the kernel writes in the window lands in the pages of those slots) are
what the wrapping addresses come down to for a program that fits.

**`HeapProofs`** (every size of heap, header, alignment and smallest split, every width
and all requests). `HeapSound` (`Tiled`, `Coalesced`, the ranges and `CountersExact`), and the refinement `Spec => KeepsPromise`. `IInv` is that held
and listed blocks tile the heap (`TiledIn`), that the list is `Sorted` with a gap behind
each of its blocks (`GapsBut`), and `StaleRefused`: what is left in memory of the header
of a block that is not held any more says free or is no header, so a second `kfree` of
the pointer is turned away. The list operations are the community modules', so
lemmas say first what `RemoveAt`, `InsertAt` and `ReplaceAt` do to length, order and elements.
Then each change of memory is shown to keep the tiling by itself (`FreeTiled`, `MergeTiled`,
`TakeTiled`, `SplitTiled`). `kfree` opens at most two places where blocks touch, behind the
freed block and before it, and `MergeCloses` says that a merge closes the one it looks at and opens
none. A refusal is justified by `NoGap`: the block that a refused place would lie in ends at a
held block or at the end of the heap, so it is a free block long enough, which first
fit would have found. `AlignUpServes` is the rounding, with its wrap. The counters are exact
because the bytes of a set of blocks are counted as the addresses within them: with a block
that is apart from all others their number grows, or without it falls, by its length
(`WithinOneMore`, `WithinRest`, from the cardinality of disjoint unions).

**`ShellProofs`** (all users, passwords and trees of directories, every length of the path, with disk
errors or without). `OneAccountEach` and the ranges (`AccountsSound`), `PathUsuallyInSync`,
`SessionsApart`. `IInv` adds that the list register is about to write is as sound as the one on
the disk, and that a list with an open last line has no other line, so that the account glued
together is alone in it (`ListsSound`); that the path shown is made of pieces (`PathTyped`), and where a
guest and a starting machine are (`PathSound`). Cutting the last piece off the path
shown goes up by one directory only where each name is one piece: `ShowsFront`.

The **line editor** is in `ShellProofs` too (every screen, line length, history, set of
letters, and every prompt shorter than a row): `HistorySound`, `WalksTheLog`, `WhatYouSee`. `LineIInv` is the
ranges, `Ring` and `Shown`. `Ring` reads the slots backwards from the one to be written next,
so that neither the step of the head nor a full ring moves the lines that stay (`AtNext`); the
slot that the code computes modulo the size is that one (`AtIs`). `Shown` says that nothing stands below the
cursor's row, whatever was printed, which is why the next prompt meets an empty row; and
that the row begins with prompt and line and ends with blanks. Printing and erasing are the
folds of the community modules over a sequence. Induction over data is out of reach, but the
values that a fold goes through exist as a function (`DrawnFunction`), and what each
character keeps holds up to the last one (`UpTo`, an induction over a set of numbers, which
`LowestExists` gives). `PutsReads` and `EraseReads` are the results: n characters more, or n less.

**`KeyboardProofs`** (every ring size, all tables). `TypeOK`, and the refinement
`Spec => KeepsPromise`: each step of the driver is one of the queue or a stutter.
`ReaderSound` says that what the reader saw stays true until it moves the tail.
`EnteredAppends` and `FreesOldest` relate one index step to `Append` and `Tail` of
the mapped queue.

**`DesktopProofs`** (every screen, every set of reports, all layouts of icons apart from
one another). `TypeOK`, `RequestOffered`, `NotepadWhenAsked`, `ClicksLand`, and the refinement
`Spec => KeepsPointer`. `IInv` ties the control point to the program, the call and the
locals: where the click is to be reset it is set (nobody but the main flow resets
it), the position read is the pointer's while `still`, and `Mine` was decided
for it. That `Synced` bytes make the report which was sent is what the step of a third
byte rests on; that `polls > 0` exactly in `mouse_init` is what allows the driver
to fall out of step only there.

**`GfxProofs`** (every screen, window, cursor, width of int, font, scene and text). `TypeOK`,
`ClipExact`, `ReadAsWritten`, `Measured`, `NoTrace`, `NeverTorn`, `FrameShows` and `StaysInWindow`. Clipping is
proved on one axis (`PixelsExact`, `InsideExact`, `SpanExact`: no intermediate sum leaves int,
and the count that is left is that of the pixels visible) and crossed. `NoTrace` is not
inductive: `IInv` adds `Good`, which also says that the saved block holds the picture but
for stale and wrong pixels. `PaintGood` (drawing keeps it) and `CursorGood` (so does
moving the cursor) are the two lemmas that all actions are instances of. `FrameShows`
needs that behind a program no block is saved.

`CharsOf`, `PlaceOf` and `TextWidth` are functions defined by recursion, so first it must be shown that
they exist: `Recurs` makes one from its start and its steps (a number at a time, by `UpTo`, an
induction over a set of numbers, which the library's well-founded order of finite sets
gives), `CanBeRead` one from the end of a text back to its beginning. Then `SumsExist` and
`NextPlaces` are their equations, and `AllMeasured` compares the two: where a character is drawn is
never past the sum of the widths before it, and is that sum as long as no line ends and
every wide character is in the font. That text is decoded as it was encoded (`ReadAsWritten`) is arithmetic: `Digits` writes a character with the six bits
that each byte carries, `EncodedAs` and `DecodedAt` go through the four lengths,
and `Leads` says that no first byte is taken for one of another length.

Before a proof each inductive invariant was given to TLC on the bounds of its run (for `Fat16` all of
them, `CallSound`, `VolumeSound`, `FilesSound`, `WalkSound`, `NamesSound`, `Covered` and `ReadyToChange`, on the bounds
of both runs); that of the line editor was proved after its properties had passed.

Assumptions: the ASSUMEs in these modules, which are the relations
between `#define`s that the code relies on (cluster numbers stay below the end mark and
a directory block has room for the dot entries; the quantum is less than the
counter's range; the window and the back buffer lie in memory behind what the boot
takes and within the width, with a stack smaller than the window; the ring has more than one slot; reports have
the bit set by which the driver knows them; the heap's sizes are multiples of its alignment
and the heap is far smaller than the width; directories are sequences of names whose parents exist; icons are apart, as their cells are; the
window lies on the screen; characters are those of Unicode; the prompt is shorter than a row; the rectangles that programs draw keep a pixel away from the ends
of int, which only `StaysInWindow` needs).

Only model-checked: everything temporal (`CallsReturn`, `ProgramLeaves`,
`KeysHeardUntilKill`, `ClimbEnds`, `ClickTaken`, `CursorFollows`): liveness is outside TLAPS's reach, as is ENABLED.
Every other property of a run that is expected to pass is a theorem.

## 6. What is not modelled

- **The graphics device**: mode registers, the planes that the narrow font is read from and
  written back to, the search for the frame buffer on the PCI bus; colours of wallpaper and
  icons are `Scenes`.
- **The mouse's line**: bytes are lost to `mouse_init` only; the controller's own
  buffer overrun is hardware that the code cannot see.
- **ATA**: port I/O. Its possible answers are `Fat16`'s environment.
- **GDT, IDT, exceptions**: tables written once; that exceptions stop the machine is
  in `Memory`.
- **Boot sector, kernel entry, build scripts**: straight-line code before anything
  that is modelled; they fix constants (one sector to a cluster, two FATs).
- **The other system calls**, `file_read`, `file_list` and `sysinfo`, copy what a driver
  answers. Checks of user pointers do not change state.
- **The second FAT copy**, dates and volume labels: never read by the driver.
- **A system call's drawing, files and keyboard in `Sched`** are one step `SysOther`,
  or `SysGetchar`: what they do in their components is modelled there.
- **Programs' effect on the disk** by system calls is that of the shell's commands:
  the same functions of `fat16.c`, one caller at a time. In `Shell` a program does not touch
  USERS.DAT: `sc_file_write` (`kernel/kernel/syscall.c:152`) would let it put any lines there,
  the same user twice among them, and `AccountsSound` says nothing of that.

## 7. Plan

Done, in this order: `Fat16` (the largest and most failure-prone part), `Sched` with
its proofs, `Heap` over `Allocator`, `Memory` with its proofs, `Keyboard` over
`TypeAhead` with its proofs, `LineEditor` over `Tty`, `Shell`; then `Mouse` over
`Pointer` with `Desktop` and their proofs, `Gfx` over `Text` with its proofs, and the
proofs about sleeping, the accounting of pages, the loader, `Shell` and `Heap`; the
proofs of `FatSound`, of whole files, of the tree of directories, of the heap's counters,
of the line editor and of the texts that are decoded and measured; `FileTree` with the
proof that `Fat16` implements it.

Left:

1. Tabs in `Tty`, and the screen together with command output.
2. `Gfx` and `Memory` together: what drawing in the back buffer does to a program
   whose pages lie there.
