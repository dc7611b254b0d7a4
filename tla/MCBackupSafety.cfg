\* One piece of everything, two backups; of two restores, a change to the database, a
\* rotation and a failure any two together.
SPECIFICATION Spec
CONSTANTS
    Row = {r1}
    Msg = {m1}
    Dir = {d1, d2}
    None = None
    MaxBackups = 2
    MaxRestores = 2
    MaxChanges = 1
    MaxRotations = 1
    MaxFaults = 1
    MaxEvents = 2
    Selections <- OnlyAll
INVARIANTS FullRebuilds DumpAndLogGiveToday MailOfTheDump SuccessIsReadable
SYMMETRY Dirs
\* The backups run out.
CHECK_DEADLOCK FALSE
