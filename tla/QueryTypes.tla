----------------------------- MODULE QueryTypes -----------------------------
(***************************************************************************)
(* api/resources/v1alpha1/zz_generated_{rule,savedview,dashboard}_types.go: *)
(* the typed specs of the kinds that hold queries.  One definition per     *)
(* struct; the CEL rules, which only narrow the documents down further, are *)
(* left out.                                                               *)
(***************************************************************************)
EXTENDS Schema

-----------------------------------------------------------------------------
(* Shapes the three kinds share: the query builder *)

ComparisonSpaceAggregationParam == Struct(
     Required([operator |-> Filled, threshold |-> Scalar]))

Aggregation(param) == Struct(
     Omitempty(Each({"alias", "expression", "metricName"}, Scalar)
              ++ Each({"reduceTo", "spaceAggregation", "temporality",
                       "timeAggregation"}, Filled))
  ++ Pointer([comparisonSpaceAggregationParam |-> param]))

BucketOptionsSpec == Struct(
     Omitempty([maxValue |-> Scalar, numBuckets |-> Scalar])
  ++ Pointer([scale |-> Scalar]))

BucketOptions(spec) == Struct(
     Required([kind |-> Filled, spec |-> spec]))

Expression == Struct(
     Omitempty([expression |-> Scalar]))

Arg == Struct(
     Omitempty([name |-> Scalar])
  ++ Pointer([value |-> Raw]))

QueryFunction(arg) == Struct(
     Omitempty([args |-> ListOf(arg), name |-> Filled]))

FieldKey == Struct(
     Required([name |-> Filled])
  ++ Omitempty([description |-> Scalar, unit |-> Scalar]
              ++ Each({"fieldContext", "fieldDataType", "signal"}, Filled)))

LimitBy == Struct(
     Omitempty([keys |-> ListOf(Scalar), value |-> Scalar]))

OrderBy(key) == Struct(
     Omitempty([direction |-> Filled])
  ++ Pointer([key |-> key]))

SecondaryAggregation(group, limit, order) == Struct(
     Omitempty([groupBy |-> ListOf(group), order |-> ListOf(order)]
              ++ Each({"alias", "expression", "limit"}, Scalar))
  ++ Pointer([limitBy |-> limit, stepInterval |-> Raw]))

QuerySpec(aggr, bucket, filter, fn, group, having, limit, order, second, field) ==
  Struct(
     Omitempty([aggregations |-> ListOf(aggr), functions |-> ListOf(fn),
                groupBy |-> ListOf(group), order |-> ListOf(order),
                secondaryAggregations |-> ListOf(second),
                selectFields |-> ListOf(field), signal |-> Filled,
                source |-> Filled]
              ++ Each({"cursor", "disabled", "expression", "legend", "limit",
                       "name", "offset", "query", "returnSpansFrom",
                       "skipStepAlignment", "stats"}, Scalar))
  ++ Pointer([bucketOptions |-> bucket, filter |-> filter, having |-> having,
              limitBy |-> limit, step |-> Raw, stepInterval |-> Raw]))

Query(spec) == Struct(
     Required([type |-> Filled])
  ++ Pointer([spec |-> spec]))

-----------------------------------------------------------------------------
(* Rule *)

RuleComparisonSpaceAggregationParam == ComparisonSpaceAggregationParam
RuleAggregation == Aggregation(RuleComparisonSpaceAggregationParam)
RuleBucketOptionsSpec == BucketOptionsSpec
RuleBucketOptions == BucketOptions(RuleBucketOptionsSpec)
RuleFilter == Expression
RuleArg == Arg
RuleFunction == QueryFunction(RuleArg)
RuleGroupBy == FieldKey
RuleHaving == Expression
RuleLimitBy == LimitBy
RuleKey == FieldKey
RuleOrder == OrderBy(RuleKey)
RuleSecondaryAggregationGroupBy == FieldKey
RuleSecondaryAggregationLimitBy == LimitBy
RuleSecondaryAggregationOrder == OrderBy(RuleKey)
RuleSecondaryAggregation ==
  SecondaryAggregation(RuleSecondaryAggregationGroupBy,
                       RuleSecondaryAggregationLimitBy,
                       RuleSecondaryAggregationOrder)
RuleSelectField == FieldKey
RuleQuerySpec ==
  QuerySpec(RuleAggregation, RuleBucketOptions, RuleFilter, RuleFunction,
            RuleGroupBy, RuleHaving, RuleLimitBy, RuleOrder,
            RuleSecondaryAggregation, RuleSelectField)
RuleQuery == Query(RuleQuerySpec)

RuleCompositeQuery == Struct(
     Required([panelType |-> Filled, queries |-> ListOf(RuleQuery),
               queryType |-> Filled])
  ++ Omitempty([unit |-> Scalar]))

RuleThresholdsSpec == Struct(
     Required([target |-> Scalar]
             ++ Each({"matchType", "name", "op"}, Filled))
  ++ Omitempty([channels |-> ListOf(Scalar), targetUnit |-> Scalar])
  ++ Pointer([recoveryTarget |-> Scalar]))

RuleThresholds == Struct(
     Required([kind |-> Filled, spec |-> ListOf(RuleThresholdsSpec)]))

RuleCondition == Struct(
     Required([compositeQuery |-> RuleCompositeQuery,
               selectedQueryName |-> Filled, thresholds |-> RuleThresholds])
  ++ Omitempty([seasonality |-> Filled]
              ++ Each({"absentFor", "alertOnAbsent", "algorithm",
                       "requireMinPoints", "requiredNumPoints"}, Scalar)))

RuleSchedule == Struct(
     Required([type |-> Filled])
  ++ Pointer(Each({"day", "hour", "minute", "weekday"}, Scalar)))

RuleEvaluationSpec == Struct(
     Omitempty(Each({"evalWindow", "frequency", "timezone"}, Scalar))
  ++ Pointer([schedule |-> RuleSchedule]))

RuleEvaluation == Struct(
     Required([kind |-> Filled, spec |-> RuleEvaluationSpec]))

RuleRenotify == Struct(
     Omitempty([alertStates |-> ListOf(Scalar), enabled |-> Scalar,
                interval |-> Scalar]))

RuleNotificationSettings == Struct(
     Omitempty([groupBy |-> ListOf(Scalar), newGroupEvalDelay |-> Scalar,
                usePolicy |-> Scalar])
  ++ Pointer([renotify |-> RuleRenotify]))

RuleObjectSpec == Struct(
     Required([condition |-> RuleCondition, evaluation |-> RuleEvaluation,
               notificationSettings |-> RuleNotificationSettings]
             ++ Each({"alert", "alertType", "ruleType",
                      "schemaVersion"}, Filled))
  ++ Omitempty([annotations |-> MapOf(Scalar), description |-> Scalar,
                disabled |-> Scalar, labels |-> MapOf(Scalar)]))

Rule == Resource(RuleObjectSpec)

-----------------------------------------------------------------------------
(* SavedView *)

SavedViewComparisonSpaceAggregationParam == ComparisonSpaceAggregationParam
SavedViewAggregation == Aggregation(SavedViewComparisonSpaceAggregationParam)
SavedViewBucketOptionsSpec == BucketOptionsSpec
SavedViewBucketOptions == BucketOptions(SavedViewBucketOptionsSpec)
SavedViewFilter == Expression
SavedViewArg == Arg
SavedViewFunction == QueryFunction(SavedViewArg)
SavedViewGroupBy == FieldKey
SavedViewHaving == Expression
SavedViewLimitBy == LimitBy
SavedViewKey == FieldKey
SavedViewOrder == OrderBy(SavedViewKey)
SavedViewSecondaryAggregationGroupBy == FieldKey
SavedViewSecondaryAggregationLimitBy == LimitBy
SavedViewSecondaryAggregationOrder == OrderBy(SavedViewKey)
SavedViewSecondaryAggregation ==
  SecondaryAggregation(SavedViewSecondaryAggregationGroupBy,
                       SavedViewSecondaryAggregationLimitBy,
                       SavedViewSecondaryAggregationOrder)
SavedViewSelectField == FieldKey
SavedViewQuerySpec ==
  QuerySpec(SavedViewAggregation, SavedViewBucketOptions, SavedViewFilter,
            SavedViewFunction, SavedViewGroupBy, SavedViewHaving,
            SavedViewLimitBy, SavedViewOrder, SavedViewSecondaryAggregation,
            SavedViewSelectField)
SavedViewQuery == Query(SavedViewQuerySpec)
SavedViewSelectedField == FieldKey

SavedViewDisplay == Struct(
     Omitempty(Each({"color", "fontSize", "format", "maxLines"}, Scalar)))

SavedViewSpecPayload == Struct(
     Required([queries |-> ListOf(SavedViewQuery)]
             ++ Each({"displayName", "panelType", "requestType"}, Filled))
  ++ Omitempty([selectedFields |-> ListOf(SavedViewSelectedField)])
  ++ Pointer([display |-> SavedViewDisplay]))

SavedViewObjectSpec == Struct(
     Required([schemaVersion |-> Filled, source |-> Filled,
               spec |-> SavedViewSpecPayload])
  ++ Omitempty([name |-> Scalar]))

SavedView == Resource(SavedViewObjectSpec)

-----------------------------------------------------------------------------
(* Dashboard *)

DashboardSelectField == FieldKey
DashboardComparisonSpaceAggregationParam == ComparisonSpaceAggregationParam
DashboardAggregation == Aggregation(DashboardComparisonSpaceAggregationParam)
DashboardBucketOptionsSpec == BucketOptionsSpec
DashboardBucketOptions == BucketOptions(DashboardBucketOptionsSpec)
DashboardFilter == Expression
DashboardArg == Arg
DashboardFunction == QueryFunction(DashboardArg)
DashboardGroupBy == FieldKey
DashboardHaving == Expression
DashboardLimitBy == LimitBy
DashboardKey == FieldKey
DashboardOrder == OrderBy(DashboardKey)
DashboardQuerySpecPluginSpecQuerySpecAggregation ==
  Aggregation(DashboardComparisonSpaceAggregationParam)
DashboardQuerySpecPluginSpecQuerySpecBucketOptionsSpec == BucketOptionsSpec
DashboardQuerySpecPluginSpecQuerySpecBucketOptions ==
  BucketOptions(DashboardQuerySpecPluginSpecQuerySpecBucketOptionsSpec)
DashboardQuerySpecPluginSpecQuerySpecFilter == Expression
DashboardQuerySpecPluginSpecQuerySpecFunction == QueryFunction(DashboardArg)
DashboardQuerySpecPluginSpecQuerySpecGroupBy == FieldKey
DashboardQuerySpecPluginSpecQuerySpecHaving == Expression
DashboardQuerySpecPluginSpecQuerySpecLimitBy == LimitBy
DashboardQuerySpecPluginSpecQuerySpecOrder == OrderBy(DashboardKey)
DashboardSecondaryAggregationGroupBy == FieldKey
DashboardSecondaryAggregationLimitBy == LimitBy
DashboardSecondaryAggregationOrder == OrderBy(DashboardKey)
DashboardSecondaryAggregation ==
  SecondaryAggregation(DashboardSecondaryAggregationGroupBy,
                       DashboardSecondaryAggregationLimitBy,
                       DashboardSecondaryAggregationOrder)
DashboardQuerySpecPluginSpecQuerySpecSelectField == FieldKey
DashboardQuerySpecPluginSpecQuerySpec ==
  QuerySpec(DashboardQuerySpecPluginSpecQuerySpecAggregation,
            DashboardQuerySpecPluginSpecQuerySpecBucketOptions,
            DashboardQuerySpecPluginSpecQuerySpecFilter,
            DashboardQuerySpecPluginSpecQuerySpecFunction,
            DashboardQuerySpecPluginSpecQuerySpecGroupBy,
            DashboardQuerySpecPluginSpecQuerySpecHaving,
            DashboardQuerySpecPluginSpecQuerySpecLimitBy,
            DashboardQuerySpecPluginSpecQuerySpecOrder,
            DashboardSecondaryAggregation,
            DashboardQuerySpecPluginSpecQuerySpecSelectField)
DashboardQuerySpecPluginSpecQuery ==
  Query(DashboardQuerySpecPluginSpecQuerySpec)
DashboardQuerySpecPluginSpecSelectField == FieldKey

DashboardDisplay == Struct(
     Required([name |-> Filled])
  ++ Omitempty([description |-> Scalar]))

DashboardCollapse == Struct(
     Omitempty([open |-> Scalar]))

DashboardLayoutSpecDisplay == Struct(
     Omitempty([title |-> Scalar])
  ++ Pointer([collapse |-> DashboardCollapse]))

DashboardContent == Struct(
     Omitempty(Each({"$ref"}, Scalar)))

DashboardItem == Struct(
     Omitempty(Each({"height", "width", "x", "y"}, Scalar))
  ++ Pointer([content |-> DashboardContent]))

DashboardLayoutSpec == Struct(
     Omitempty([items |-> ListOf(DashboardItem), repeatVariable |-> Scalar])
  ++ Pointer([display |-> DashboardLayoutSpecDisplay]))

DashboardLayout == Struct(
     Required([kind |-> Filled, spec |-> DashboardLayoutSpec]))

DashboardY == Struct(
     Omitempty([scale |-> Filled]))

DashboardAxes == Struct(
     Omitempty([isLogScale |-> Scalar])
  ++ Pointer([softMax |-> Scalar, softMin |-> Scalar, y |-> DashboardY]))

DashboardColors == Struct(
     Omitempty([fill |-> Scalar, steps |-> Scalar]
              ++ Each({"mode", "palette", "scale"}, Filled))
  ++ Pointer([maxCount |-> Scalar, minCount |-> Scalar]))

DashboardSpanGaps == Struct(
     Omitempty([fillLessThan |-> Scalar, fillOnlyBelow |-> Scalar]))

DashboardChartAppearance == Struct(
     Omitempty([showPoints |-> Scalar]
              ++ Each({"fillMode", "lineInterpolation",
                       "lineStyle"}, Filled))
  ++ Pointer([colors |-> DashboardColors, fillOpacity |-> Scalar,
              spanGaps |-> DashboardSpanGaps]))

DashboardFormatting == Struct(
     Omitempty([columnUnits |-> MapOf(Scalar), decimalPrecision |-> Filled,
                unit |-> Scalar]))

DashboardHeaderOptions == Struct(
     Omitempty([hide |-> Scalar]))

DashboardHistogramBuckets == Struct(
     Omitempty([mergeAllActiveQueries |-> Scalar])
  ++ Pointer([bucketCount |-> Scalar, bucketWidth |-> Scalar]))

DashboardLegend == Struct(
     Omitempty([customColors |-> MapOf(Scalar), mode |-> Filled,
                position |-> Filled]))

DashboardPresentation == Struct(
     Omitempty([background |-> Scalar, textAlign |-> Filled,
                verticalAlign |-> Filled]))

DashboardThreshold == Struct(
     Required([color |-> Filled, value |-> Scalar])
  ++ Omitempty([format |-> Filled, operator |-> Filled]
              ++ Each({"columnName", "label", "unit"}, Scalar)))

DashboardVisualization == Struct(
     Omitempty([fillSpans |-> Scalar, stack |-> Filled,
                stackedBarChart |-> Scalar, timePreference |-> Filled]))

DashboardPluginSpec == Struct(
     Omitempty([mode |-> Filled,
                selectFields |-> ListOf(DashboardSelectField),
                text |-> Scalar, thresholds |-> ListOf(DashboardThreshold)])
  ++ Pointer([axes |-> DashboardAxes,
              chartAppearance |-> DashboardChartAppearance,
              formatting |-> DashboardFormatting,
              headerOptions |-> DashboardHeaderOptions,
              histogramBuckets |-> DashboardHistogramBuckets,
              legend |-> DashboardLegend,
              presentation |-> DashboardPresentation,
              visualization |-> DashboardVisualization]))

DashboardPlugin == Struct(
     Required([kind |-> Filled, spec |-> DashboardPluginSpec]))

DashboardQuerySpecPluginSpec == Struct(
     Omitempty([aggregations |-> ListOf(DashboardAggregation),
                functions |-> ListOf(DashboardFunction),
                groupBy |-> ListOf(DashboardGroupBy),
                order |-> ListOf(DashboardOrder),
                queries |-> ListOf(DashboardQuerySpecPluginSpecQuery),
                secondaryAggregations |-> ListOf(DashboardSecondaryAggregation),
                selectFields |-> ListOf(DashboardQuerySpecPluginSpecSelectField),
                signal |-> Filled, source |-> Filled]
              ++ Each({"cursor", "disabled", "expression", "legend", "limit",
                       "name", "offset", "query", "returnSpansFrom",
                       "skipStepAlignment", "stats"}, Scalar))
  ++ Pointer([bucketOptions |-> DashboardBucketOptions,
              filter |-> DashboardFilter, having |-> DashboardHaving,
              limitBy |-> DashboardLimitBy, step |-> Raw,
              stepInterval |-> Raw]))

DashboardQuerySpecPlugin == Struct(
     Required([kind |-> Filled, spec |-> DashboardQuerySpecPluginSpec]))

DashboardQuerySpec == Struct(
     Required([plugin |-> DashboardQuerySpecPlugin])
  ++ Omitempty([name |-> Scalar]))

DashboardQuery == Struct(
     Required([kind |-> Filled, spec |-> DashboardQuerySpec]))

DashboardLink == Struct(
     Omitempty(Each({"name", "renderVariables", "targetBlank", "tooltip",
                     "url"}, Scalar)))

DashboardPanelSpec == Struct(
     Required([display |-> DashboardDisplay, plugin |-> DashboardPlugin,
               queries |-> ListOf(DashboardQuery)])
  ++ Omitempty([links |-> ListOf(DashboardLink)]))

DashboardPanel == Struct(
     Required([kind |-> Filled, spec |-> DashboardPanelSpec]))

DashboardVariableSpecPluginSpec == Struct(
     Omitempty([signal |-> Filled]
              ++ Each({"customValue", "name", "queryValue"}, Scalar)))

DashboardVariableSpecPlugin == Struct(
     Required([kind |-> Filled, spec |-> DashboardVariableSpecPluginSpec]))

DashboardVariableSpec == Struct(
     Omitempty([sort |-> Filled]
              ++ Each({"allowAllValue", "allowMultiple", "capturingRegexp",
                       "constant", "customAllValue", "name",
                       "value"}, Scalar))
  ++ Pointer([defaultValue |-> Raw, display |-> DashboardDisplay,
              plugin |-> DashboardVariableSpecPlugin]))

DashboardVariable == Struct(
     Required([kind |-> Filled, spec |-> DashboardVariableSpec]))

DashboardSpecPayload == Struct(
     Required([display |-> DashboardDisplay,
               layouts |-> ListOf(DashboardLayout),
               panels |-> MapOf(DashboardPanel),
               variables |-> ListOf(DashboardVariable)])
  ++ Omitempty([duration |-> Scalar, links |-> ListOf(DashboardLink),
                refreshInterval |-> Scalar]))

DashboardTag == Struct(
     Required([key |-> Filled, value |-> Filled]))

DashboardObjectSpec == Struct(
     Required([schemaVersion |-> Filled, spec |-> DashboardSpecPayload,
               tags |-> ListOf(DashboardTag)])
  ++ Omitempty([image |-> Scalar, name |-> Scalar]))

Dashboard == Resource(DashboardObjectSpec)

=============================================================================
