CONSTANT Thread = {t1, t2, t3}
SPECIFICATION FairSpec
INVARIANTS TypeOK WriteExclusive LightOff
PROPERTIES RWLockSpec WriterShutsEntrance EntranceLeadsIn EveryoneServed
