-------------------------- MODULE MCSystemLifecycle -------------------------
EXTENDS SystemLifecycle

CONSTANTS speed, radius, unknown, old, new, bad

MCNames == {speed, radius}
MCValues == {old, new, bad}
Change(names, value) == [p \in names |-> value]

\* One parameter, then both; a value that may be refused; an unknown parameter.
MCChanges == {Change({speed}, new), Change({radius}, bad),
              [p \in {speed, radius} |-> IF p = speed THEN new ELSE bad],
              Change({unknown}, new)}
MCChange == {Change({speed}, bad)}

MCFaulty == [configure |-> MCValues, activate |-> MCValues, deactivate |-> MCValues,
             set |-> {bad}]
MCFaultyActivation == [configure |-> {}, activate |-> {bad}, deactivate |-> {}, set |-> {}]
MCFaultyDeactivation == [configure |-> {}, activate |-> {}, deactivate |-> {bad}, set |-> {}]
=============================================================================
