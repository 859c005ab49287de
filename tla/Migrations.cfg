SPECIFICATION Spec
 
PROPERTY UpgradeAfterDowngrade
CHECK_DEADLOCK FALSE
